---- MODULE Spec2Model ----
(***************************************************************************)
(* Timeline chart: the viewport (time domain) controller, the filter       *)
(* pipeline and their handlers, modelled from src/unnamed/part_000.        *)
(*                                                                         *)
(* Time.  A Date's time value is an integer number of milliseconds.  The   *)
(* model keeps Dates as integers and measures them in DAYS, because the    *)
(* 30-day constant in milliseconds does not fit TLC's 32-bit integers.     *)
(* new Date(v) truncates v toward zero (TimeClip); the model truncates to  *)
(* a whole unit in the same way.  Arithmetic on doubles is modelled as     *)
(* exact rational arithmetic followed by that truncation.                  *)
(*                                                                         *)
(* An Invalid Date has the time value NaN; every comparison with NaN is    *)
(* false and every sum or difference with NaN is NaN.                      *)
(***************************************************************************)
EXTENDS Integers, Sequences, FiniteSets, TLC

VARIABLES
    dateParse,      \* what this engine's Date parser does with toString() text followed by digits
    isTouch,        \* navigator.maxTouchPoints > 0 (and IS_TOUCH)
    rawData,        \* rows parsed from the CSV, << >> before the load
    FULL_EXTENT,    \* [ok, min, max]: d3.extent over all rows, ok = FALSE while null
    selectedCats,   \* legend state
    selectedTopics, \* the topic options that are "on"
    selectedSources,\* the source options that are "on"
    onlyKeyEvents,  \* #keyEventFilter checked
    searchValue,    \* #search value, as typed
    filteredData,   \* indices into rawData that passed the filters, in rawData order
    keyEvents,      \* indices of filteredData with keyEvent = true
    x,              \* the live time scale (currentXScale and the handlers' closure): [ok, d0, d1, w]
    width,          \* chart width
    didInitialFit,  \* drawChart._didInitialFit
    lastX,          \* drag handler: last pointer x, NoPx when null
    touch,          \* enableTouchZoomPan's closure: active, baseDomain, panLastX, pinchStartDist, pinchStartMidX
    last,           \* history: the last handler that ran, its input and the domain it found
    cdIn,           \* clampDomain called on its own: the arguments
    cdOut,          \* clampDomain called on its own: the result
    cache,          \* d.xOffset and d.ySim of the rows whose dots are on the chart
    dots,           \* cx and cy of the circles on the chart
    placedLabels,   \* the labels drawAnnotations placed last
    viewed,         \* the rows whose viewed flag is true
    lastClicked,    \* the row of the last dot clicked, NoRow while null
    stages,         \* history: what the last handler did to the chart, in the order it did it
    connectors      \* y1 of the connector line of every placed label

vars == << dateParse, isTouch, viewed, lastClicked, rawData, FULL_EXTENT, selectedCats, selectedTopics,
           selectedSources, onlyKeyEvents, searchValue, filteredData,
           keyEvents, x, width, didInitialFit, lastX, touch, last, cdIn, cdOut,
           cache, dots, placedLabels, stages, connectors >>

(***************************************************************************)
(* JavaScript numbers and Dates                                            *)
(***************************************************************************)

\* The time value of an Invalid Date (a value no valid Date of the model takes).
NaN == -999999

IsNaN(a) == a = NaN

\* a + b and a - b on numbers
Plus(a, b) == IF IsNaN(a) \/ IsNaN(b) THEN NaN ELSE a + b

Minus(a, b) == IF IsNaN(a) \/ IsNaN(b) THEN NaN ELSE a - b

\* a < b, a > b, a <= b, a >= b, a === b on numbers: false when either is NaN
LT(a, b) == ~IsNaN(a) /\ ~IsNaN(b) /\ a < b

GT(a, b) == ~IsNaN(a) /\ ~IsNaN(b) /\ a > b

LE(a, b) == ~IsNaN(a) /\ ~IsNaN(b) /\ a <= b

GE(a, b) == ~IsNaN(a) /\ ~IsNaN(b) /\ a >= b

StrictEq(a, b) == ~IsNaN(a) /\ ~IsNaN(b) /\ a = b

\* Math.abs
Abs(n) == IF n < 0 THEN -n ELSE n

\* n / d truncated toward zero, d > 0
TruncDiv(n, d) == IF n >= 0 THEN n \div d ELSE -((-n) \div d)

\* new Date(n / d): the time value is the quotient truncated toward zero
NewDate(n, d) == IF IsNaN(n) THEN NaN ELSE TruncDiv(n, d)

\* Never let the timeline get narrower than ~30 days (in days, see the header)
MIN_SPAN_MS == 30

(***************************************************************************)
(* new Date(date + number).  `date` is a Date object, so + concatenates    *)
(* date.toString() with the digits of the number and the Date constructor  *)
(* parses that text.  The parse of such text is implementation-defined:    *)
(* an engine either rejects it (Invalid Date) or reads the leading         *)
(* toString() text and ignores the digits (the date itself).               *)
(***************************************************************************)
Engines == {"invalid", "prefix"}

DateOfConcat(date, engine) == IF engine = "invalid" THEN NaN ELSE date

(***************************************************************************)
(* clampDomain([start, end], [min, max]); min and max are Date objects     *)
(* (every caller passes FULL_EXTENT's elements), start and end are Dates.  *)
(***************************************************************************)
ClampTranslate(start, end, min, max, engine) ==
    LET span == Minus(end, start)
        lo   == IF LT(start, min)
                  THEN << min, DateOfConcat(min, engine) >>
                  ELSE << start, end >>
        hi   == IF GT(lo[2], max)
                  THEN << NewDate(Minus(max, span), 1), max >>
                  ELSE lo
    IN  IF LT(hi[2], hi[1]) THEN << hi[2], hi[1] >> ELSE hi

ClampMinSpan(w, min, max, engine) ==
    IF LT(Minus(w[2], w[1]), MIN_SPAN_MS)
      THEN LET s  == NewDate(w[1] + w[2] - MIN_SPAN_MS, 2)
               e  == NewDate(w[1] + w[2] + MIN_SPAN_MS, 2)
               lo == IF LT(s, min)
                       THEN << min, DateOfConcat(min, engine) >>
                       ELSE << s, e >>
           IN  IF GT(lo[2], max) THEN << max - MIN_SPAN_MS, max >> ELSE lo
      ELSE w

\* clampDomain without its first step (the snap to the bounds when the window is too long)
clampDomainNoSnap(start, end, min, max, engine) ==
    ClampMinSpan(ClampTranslate(start, end, min, max, engine), min, max, engine)

clampDomain(start, end, min, max, engine) ==
    IF GE(Minus(end, start), max - min)
      THEN << min, max >>
      ELSE ClampMinSpan(ClampTranslate(start, end, min, max, engine), min, max, engine)

(***************************************************************************)
(* The rows of the CSV.  Two data sets: LONG spans more than MIN_SPAN_MS,  *)
(* SHORT spans less.  LONG starts before the epoch (negative time values). *)
(***************************************************************************)
LongSpan == 40

ShortSpan == 20

Row(d, cats, topics, src, key, ev, notes) ==
    [ date |-> d, categories |-> cats, validTopics |-> topics, displaySource |-> src,
      keyEvent |-> key, event |-> ev, notes |-> notes ]

RowsLong ==
    << Row(-5,            << "biological" >>,             << "t1" >>,       "s1", FALSE, << "A", "b" >>, << >>),
       Row(10,            << "chemical" >>,               << "t2" >>,       "s2", TRUE,  << "b", "a" >>, << "a" >>),
       Row(10,            << "biological", "chemical" >>, << >>,            "",   FALSE, << "c" >>,      << "B" >>),
       Row(25,            << "chemical" >>,               << "t1", "t2" >>, "s1", FALSE, << "a" >>,      << >>),
       Row(LongSpan - 5,  << "biological" >>,             << "t1" >>,       "s2", TRUE,  << "b" >>,      << "c" >>) >>

RowsShort ==
    << Row(3,             << "biological" >>,             << "t1" >>,       "s1", FALSE, << "a" >>,      << >>),
       Row(11,            << "chemical" >>,               << >>,            "",   TRUE,  << "b" >>,      << "a" >>),
       Row(3 + ShortSpan, << "biological", "chemical" >>, << "t2" >>,       "s2", FALSE, << "A" >>,      << "b" >>) >>

DataSets == { RowsLong, RowsShort }

Indices(rows) == 1 .. Len(rows)

\* d3.extent(rows, d => d.date) over the rows whose indices are in S (S non-empty)
MinDate(rows, S) == CHOOSE d \in { rows[i].date : i \in S } : \A j \in S : d <= rows[j].date

MaxDate(rows, S) == CHOOSE d \in { rows[i].date : i \in S } : \A j \in S : d >= rows[j].date

\* the indices of S in ascending order: Array.prototype.filter keeps the order of rawData
RECURSIVE InOrder(_, _)
InOrder(n, S) ==
    IF n = 0 THEN << >>
    ELSE IF n \in S THEN Append(InOrder(n - 1, S), n) ELSE InOrder(n - 1, S)

Range(seq) == { seq[i] : i \in 1 .. Len(seq) }

(***************************************************************************)
(* The filter of updateChart                                               *)
(***************************************************************************)
categoryKeys == { "biological", "chemical", "multi" }

LegendKeys == categoryKeys \cup { "key" }

\* the options setupFilters builds: every valid topic, every non-blank source
TopicOptions(rows) == UNION { Range(rows[i].validTopics) : i \in Indices(rows) }

SourceOptions(rows) == { rows[i].displaySource : i \in Indices(rows) } \ { "" }

\* a category test under which an event of several categories passes on any of them
catMatchAny(d, activeCats) ==
    /\ activeCats # {}
    /\ \E c \in Range(d.categories) : c \in activeCats

\* a category test that lets key events through when no category is active
catMatchKeyAlone(d, activeCats) ==
    IF activeCats = {} THEN d.keyEvent
    ELSE IF Len(d.categories) > 1
           THEN "multi" \in activeCats
           ELSE \E c \in Range(d.categories) : c \in activeCats

catMatch(d, activeCats) ==
    /\ activeCats # {}
    /\ IF Len(d.categories) > 1
         THEN "multi" \in activeCats
         ELSE \E c \in Range(d.categories) : c \in activeCats

\* a gate that lets every key event through
keyOkAlways(d, cats) == TRUE

keyOk(d, cats) == "key" \in cats \/ ~d.keyEvent

\* a topic test without the bypass for a list that is selected entirely
topicMatchNoBypass(d, rows, selTopics) ==
    IF UNION { Range(rows[i].validTopics) : i \in 1 .. Len(rows) } = {} THEN TRUE
    ELSE \E t \in Range(d.validTopics) :
            (IF t = "t1" THEN "T1" ELSE IF t = "t2" THEN "T2" ELSE t) \in selTopics

\* toTitleCase on the topics of the data sets: the first letter of every word in upper case
toTitleCase(t) == IF t = "t1" THEN "T1" ELSE IF t = "t2" THEN "T2" ELSE t

\* itemsForUI: the labels of the topic options
TopicItems(rows) == { toTitleCase(t) : t \in TopicOptions(rows) }

\* topicDropdown.__valueLookup: label -> topic
valueLookup(rows) ==
    [ l \in TopicItems(rows) |-> CHOOSE t \in TopicOptions(rows) : toTitleCase(t) = l ]

\* the labels that are "on", mapped to topics (__valueLookup.get(label) ?? label), de-duped
SelectedTokens(rows, labels) ==
    { IF l \in DOMAIN valueLookup(rows) THEN valueLookup(rows)[l] ELSE l : l \in labels }

topicMatch(d, rows, selTopics) ==
    LET selected == SelectedTokens(rows, selTopics)
    IN  IF TopicOptions(rows) = {} THEN TRUE
        ELSE IF selected = {} THEN FALSE
        ELSE IF Cardinality(selected) = Cardinality(TopicOptions(rows)) THEN TRUE
        ELSE \E t \in Range(d.validTopics) : t \in selected

\* a source test without the bypass for a list that is selected entirely
sourceMatchNoBypass(d, rows, selSources) ==
    IF { rows[i].displaySource : i \in 1 .. Len(rows) } \ { "" } = {} THEN TRUE
    ELSE d.displaySource # "" /\ d.displaySource \in selSources

sourceMatch(d, rows, selSources) ==
    IF SourceOptions(rows) = {} THEN TRUE
    ELSE IF selSources = {} THEN FALSE
    ELSE IF Cardinality(selSources) = Cardinality(SourceOptions(rows)) THEN TRUE
    ELSE d.displaySource # "" /\ d.displaySource \in selSources

\* a key-only test that lets every event through
keyMatchOff(d, onlyKey) == TRUE

keyMatch(d, onlyKey) == ~onlyKey \/ d.keyEvent

\* String.prototype.toLowerCase, trim and includes on texts (sequences of characters)
LowerChar(c) == IF c = "A" THEN "a" ELSE IF c = "B" THEN "b" ELSE c

toLowerCase(t) == [ i \in 1 .. Len(t) |-> LowerChar(t[i]) ]

RECURSIVE trim(_)
trim(t) ==
    IF t = << >> THEN t
    ELSE IF Head(t) = " " THEN trim(Tail(t))
    ELSE IF t[Len(t)] = " " THEN trim(SubSeq(t, 1, Len(t) - 1))
    ELSE t

includes(t, s) == \E i \in 0 .. (Len(t) - Len(s)) : SubSeq(t, i + 1, i + Len(s)) = s

\* a search that reads the title only
searchMatchTitleOnly(d, s) ==
    \/ s = << >>
    \/ d.event # << >> /\ includes(toLowerCase(d.event), s)

searchMatch(d, s) ==
    \/ s = << >>
    \/ d.event # << >> /\ includes(toLowerCase(d.event), s)
    \/ d.notes # << >> /\ includes(toLowerCase(d.notes), s)

\* the criteria updateChart reads from the page
Criteria(cats, topics, sources, onlyKey, search) ==
    [ cats |-> cats, topics |-> topics, sources |-> sources, onlyKey |-> onlyKey,
      search |-> search ]

\* a filter without the early return, whose category test is skipped when no category is active
FilterRowsNoEarlyReturn(rows, c) ==
    LET activeCats == categoryKeys \cap c.cats
        s == toLowerCase(trim(c.search))
    IN  InOrder(Len(rows),
                { i \in Indices(rows) :
                    /\ activeCats = {} \/ catMatch(rows[i], activeCats)
                    /\ keyOk(rows[i], c.cats)
                    /\ topicMatch(rows[i], rows, c.topics)
                    /\ sourceMatch(rows[i], rows, c.sources)
                    /\ keyMatch(rows[i], c.onlyKey)
                    /\ searchMatch(rows[i], s) })

\* the rows that pass, as indices into rows in the order of rows
FilterRows(rows, c) ==
    LET activeCats == categoryKeys \cap c.cats
        s == toLowerCase(trim(c.search))
    IN  IF activeCats = {} /\ "key" \notin c.cats
          THEN << >>
          ELSE InOrder(Len(rows),
                       { i \in Indices(rows) :
                           /\ catMatch(rows[i], activeCats)
                           /\ keyOk(rows[i], c.cats)
                           /\ topicMatch(rows[i], rows, c.topics)
                           /\ sourceMatch(rows[i], rows, c.sources)
                           /\ keyMatch(rows[i], c.onlyKey)
                           /\ searchMatch(rows[i], s) })

KeyRows(rows, data) == SelectSeq(data, LAMBDA i : rows[i].keyEvent)

(***************************************************************************)
(* The scale and the handlers                                              *)
(***************************************************************************)
\* lastClicked = null
NoRow == 0

\* lastX = null
NoPx == -1

Widths == { 320 }

\* pointer positions the wheel and drag inputs take, in svg pixels
WheelPixels == { 40, 160, 280 }

DragPixels == { 100, 160 }

\* pointer ids and the clientX positions the touch inputs take (every pointer on one horizontal line)
PointerIds == { 1, 2 }

TouchPixels == { 100, 160, 220 }

\* svg.node().getBoundingClientRect().left
BBoxLeft == 0

\* the closure state enableTouchZoomPan starts with; active maps a pointer that is down to its x
NoTouch ==
    [ active |-> [ id \in PointerIds |-> NoPx ],
      baseDomain |-> [ ok |-> FALSE, d0 |-> 0, d1 |-> 0 ],
      panLastX |-> NoPx, pinchStartDist |-> NoPx, pinchStartMidX2 |-> NoPx ]

NoScale == [ ok |-> FALSE, d0 |-> 0, d1 |-> 0, w |-> 0 ]

NoExtent == [ ok |-> FALSE, min |-> 0, max |-> 0 ]

\* x.invert(px) for the range [40, w - 40]: a Date
Invert(sc, px) ==
    IF IsNaN(sc.d0) \/ IsNaN(sc.d1)
      THEN NaN
      ELSE NewDate(sc.d0 * ((sc.w - 80) - (px - 40)) + sc.d1 * (px - 40), sc.w - 80)

\* setDomainAndRedraw: the scale after x.domain([start, end])
SetDomain(sc, start, end) == [ sc EXCEPT !.d0 = start, !.d1 = end ]

\* a drawChart that fits to FULL_EXTENT on every draw
DrawScaleAlwaysFit(sc, rows, data, w, ext, fitted) ==
    IF data = << >>
      THEN sc
      ELSE IF ext.ok
             THEN [ ok |-> TRUE, d0 |-> ext.min, d1 |-> ext.max, w |-> w ]
             ELSE [ ok |-> TRUE, d0 |-> MinDate(rows, Range(data)),
                    d1 |-> MaxDate(rows, Range(data)), w |-> w ]

\* drawChart(data): the scale it leaves, with the initial fit to FULL_EXTENT
DrawScale(sc, rows, data, w, ext, fitted) ==
    IF data = << >>
      THEN sc
      ELSE IF ~fitted /\ ext.ok
             THEN [ ok |-> TRUE, d0 |-> ext.min, d1 |-> ext.max, w |-> w ]
             ELSE [ ok |-> TRUE, d0 |-> MinDate(rows, Range(data)),
                    d1 |-> MaxDate(rows, Range(data)), w |-> w ]

(***************************************************************************)
(* Pixels.  A pixel position is a rational n / d with d > 0; NaNPx is the  *)
(* NaN the scale gives for a domain with an Invalid Date.                  *)
(***************************************************************************)
NaNPx == [ n |-> 0, d |-> 0 ]

IsNaNPx(a) == a.d = 0

IntPx(k) == [ n |-> k, d |-> 1 ]

PxPlus(a, b) == IF IsNaNPx(a) \/ IsNaNPx(b) THEN NaNPx ELSE [ n |-> a.n * b.d + b.n * a.d, d |-> a.d * b.d ]

PxMinus(a, b) == IF IsNaNPx(a) \/ IsNaNPx(b) THEN NaNPx ELSE [ n |-> a.n * b.d - b.n * a.d, d |-> a.d * b.d ]

PxLT(a, b) == ~IsNaNPx(a) /\ ~IsNaNPx(b) /\ a.n * b.d < b.n * a.d

PxGT(a, b) == PxLT(b, a)

PxEq(a, b) == ~IsNaNPx(a) /\ ~IsNaNPx(b) /\ a.n * b.d = b.n * a.d

\* x(date) for the range [40, w - 40]; d3 maps every date to the middle of the range when
\* the two ends of the domain are equal
ScalePx(sc, t) ==
    IF IsNaN(sc.d0) \/ IsNaN(sc.d1) \/ IsNaN(t) THEN NaNPx
    ELSE IF sc.d1 = sc.d0 THEN [ n |-> sc.w, d |-> 2 ]
    ELSE IF sc.d1 > sc.d0
           THEN [ n |-> 40 * (sc.d1 - sc.d0) + (t - sc.d0) * (sc.w - 80), d |-> sc.d1 - sc.d0 ]
           ELSE [ n |-> 40 * (sc.d0 - sc.d1) + (sc.d0 - t) * (sc.w - 80), d |-> sc.d0 - sc.d1 ]

(***************************************************************************)
(* The dots: the relaxation (d3.forceSimulation, 150 ticks) and its cache. *)
(* The numbers the relaxation produces are not computed here: a run leaves *)
(* one of the Layouts, a displacement and a height for every packed row.   *)
(***************************************************************************)
DOT_CENTER_Y == 168

Layouts == { 1, 2 }

\* d.x - x(d.date) and d.y after the 150 ticks of run `lay`, for row i
Relaxed(lay, i) ==
    IF lay = 1 THEN [ xOffset |-> 0, ySim |-> DOT_CENTER_Y ]
    ELSE [ xOffset |-> 2 * i - 5, ySim |-> DOT_CENTER_Y + (IF i % 2 = 0 THEN 9 ELSE -9) ]

NoCache == [ i \in {} |-> 0 ]

\* data.forEach(d => { d.ySim = d.y; d.xOffset = (d.x - x(d.date)) || 0 }) over the packed rows
Repack(lay, data) == [ i \in Range(data) |-> Relaxed(lay, i) ]

\* .attr("cx", d => x(d.date) + (d.xOffset || 0)).attr("cy", d => d.ySim ?? d.y)
Circles(sc, rows, c) ==
    [ i \in DOMAIN c |-> [ cx |-> PxPlus(ScalePx(sc, rows[i].date), IntPx(c[i].xOffset)),
                           cy |-> c[i].ySim ] ]

(***************************************************************************)
(* drawAnnotations(x, data): the key-event labels and their rows           *)
(***************************************************************************)
labelPadding == 4

CharWidth == 7

MaxLabelChars == 50

Front(seq) == SubSeq(seq, 1, Len(seq) - 1)

\* a sort that puts a row in front of the rows of the same date
RECURSIVE InsertByDateUnstable(_, _, _)
InsertByDateUnstable(rows, sorted, i) ==
    IF sorted = << >> THEN << i >>
    ELSE IF rows[sorted[Len(sorted)]].date < rows[i].date
           THEN Append(sorted, i)
           ELSE Append(InsertByDateUnstable(rows, Front(sorted), i), sorted[Len(sorted)])

\* Array.prototype.sort((a, b) => a.date - b.date) is stable: one insertion of row i
\* behind every row whose date is not later
RECURSIVE InsertByDate(_, _, _)
InsertByDate(rows, sorted, i) ==
    IF sorted = << >> THEN << i >>
    ELSE IF rows[sorted[Len(sorted)]].date <= rows[i].date
           THEN Append(sorted, i)
           ELSE Append(InsertByDate(rows, Front(sorted), i), sorted[Len(sorted)])

RECURSIVE SortByDate(_, _)
SortByDate(rows, seq) ==
    IF seq = << >> THEN << >>
    ELSE InsertByDate(rows, SortByDate(rows, Front(seq)), seq[Len(seq)])

\* labelText.length: the event's text, cut to 50 characters and an ellipsis when longer
LabelChars(ev) == IF Len(ev) > MaxLabelChars THEN MaxLabelChars + 1 ELSE Len(ev)

\* placedLabels.some(l => !(labelX2 < l.x1 || labelX1 > l.x2 || level !== l.level))
Collides(placed, labelX1, labelX2, level) ==
    \E k \in 1 .. Len(placed) :
        ~( PxLT(labelX2, placed[k].x1) \/ PxGT(labelX1, placed[k].x2) \/ level # placed[k].level )

\* let level = 0; while (...) level++
RECURSIVE FirstLevel(_, _, _, _)
FirstLevel(placed, labelX1, labelX2, level) ==
    IF Collides(placed, labelX1, labelX2, level)
      THEN FirstLevel(placed, labelX1, labelX2, level + 1)
      ELSE level

\* anchors that change at one third and two thirds of the width
AnchorAtThirds(xPos, w) ==
    IF PxLT(xPos, [ n |-> w, d |-> 3 ]) THEN "start"
    ELSE IF PxGT(xPos, [ n |-> 2 * w, d |-> 3 ]) THEN "end"
    ELSE "middle"

\* text-anchor from the label's position: left of 0.33 width, right of 0.66 width, between
Anchor(xPos, w) ==
    IF PxLT(xPos, [ n |-> 33 * w, d |-> 100 ]) THEN "start"
    ELSE IF PxGT(xPos, [ n |-> 66 * w, d |-> 100 ]) THEN "end"
    ELSE "middle"

\* one pass of the forEach body for row i
PlaceLabel(placed, rows, sc, w, i) ==
    LET xPos    == ScalePx(sc, rows[i].date)
        half    == [ n |-> LabelChars(rows[i].event) * CharWidth, d |-> 2 ]
        labelX1 == PxMinus(xPos, half)
        labelX2 == PxPlus(xPos, half)
        level   == FirstLevel(placed, labelX1, labelX2, 0)
    IN  IF IsNaNPx(xPos) THEN placed
        ELSE Append(placed, [ ev |-> i, xPos |-> xPos,
                              x1 |-> PxMinus(labelX1, IntPx(labelPadding)),
                              x2 |-> PxPlus(labelX2, IntPx(labelPadding)),
                              level |-> level, anchor |-> Anchor(xPos, w) ])

RECURSIVE PlaceLabels(_, _, _, _)
PlaceLabels(keys, rows, sc, w) ==
    IF keys = << >> THEN << >>
    ELSE PlaceLabel(PlaceLabels(Front(keys), rows, sc, w), rows, sc, w, keys[Len(keys)])

\* drawAnnotations: the labels it places for the (sorted) key events
drawAnnotations(keys, rows, sc, w) == PlaceLabels(SortByDate(rows, keys), rows, sc, w)

\* data.find(item => same date and same event text): the first such row on the chart
Match(rows, data, i) ==
    LET same == { k \in 1 .. Len(data) :
                    rows[data[k]].date = rows[i].date /\ rows[data[k]].event = rows[i].event }
    IN  IF same = {} THEN NoRow
        ELSE data[CHOOSE k \in same : \A m \in same : k <= m]

\* yStart = match?.y ?? DOT_CENTER_Y for every label placed, read when the annotations are built
Connectors(placed, rows, data, c) ==
    [ k \in 1 .. Len(placed) |->
        LET match == Match(rows, data, placed[k].ev)
        IN  IF match \in DOMAIN c THEN c[match].ySim ELSE DOT_CENTER_Y ]

\* setDomainAndRedraw in the order of its statements: x.domain, the axis, the relaxation
\* when asked to repack, the circles' cx and cy, drawAnnotations
RedrawStages(repack) ==
    IF repack THEN << "domain", "axis", "relax", "markers", "annotations" >>
    ELSE << "domain", "axis", "markers", "annotations" >>

\* drawChart on a set that is not empty: scale and axis, the relaxation, the circles, the
\* annotations; then, the first time, the fit to FULL_EXTENT by setDomainAndRedraw
DrawChartStages(fit) ==
    RedrawStages(TRUE) \o (IF fit THEN RedrawStages(FALSE) ELSE << >>)

\* updateChart() with the given rows, criteria, width and extent
\* a redraw that returns on an empty set before it clears the layers
UpdateChartKeepsLayers(rows, c, w, ext) ==
    \E data \in { FilterRows(rows, c) } :
        /\ filteredData' = data
        /\ keyEvents' = IF data = << >> THEN << >> ELSE SortByDate(rows, KeyRows(rows, data))
        /\ x' = DrawScale(x, rows, data, w, ext, didInitialFit)
        /\ IF data = << >>
             THEN UNCHANGED << cache, dots, placedLabels, connectors >>
             ELSE /\ \E lay \in Layouts : cache' = Repack(lay, data)
                  /\ dots' = Circles(x', rows, cache')
                  /\ placedLabels' = drawAnnotations(keyEvents', rows, x', w)
                  /\ connectors' = Connectors(placedLabels', rows, data, cache')
        /\ didInitialFit' = (didInitialFit \/ (data # << >> /\ ext.ok))
        /\ lastX' = IF data = << >> THEN lastX ELSE NoPx
        /\ touch' = IF data = << >> THEN touch ELSE NoTouch
        /\ stages' = IF data = << >> THEN << >> ELSE DrawChartStages(~didInitialFit /\ ext.ok)

UpdateChart(rows, c, w, ext) ==
    \E data \in { FilterRows(rows, c) } :
        /\ filteredData' = data
        /\ keyEvents' = IF data = << >> THEN << >> ELSE SortByDate(rows, KeyRows(rows, data))
        /\ x' = DrawScale(x, rows, data, w, ext, didInitialFit)
        /\ \E lay \in Layouts : cache' = Repack(lay, data)
        /\ dots' = Circles(x', rows, cache')
        /\ placedLabels' = IF data = << >> THEN << >>
                           ELSE drawAnnotations(keyEvents', rows, x', w)
        /\ connectors' = Connectors(placedLabels', rows, data, cache')
        /\ didInitialFit' = (didInitialFit \/ (data # << >> /\ ext.ok))
        /\ lastX' = IF data = << >> THEN lastX ELSE NoPx
        /\ touch' = IF data = << >> THEN touch ELSE NoTouch
        /\ stages' = IF data = << >> THEN << >> ELSE DrawChartStages(~didInitialFit /\ ext.ok)

\* Math.abs(newSpan - oldSpan) > 5: five milliseconds, less than one unit of time here
RepackThreshold == 0

\* a redraw that builds the annotations before the relaxation and the circles
RedrawLabelsFirst(applied, repack) ==
    IF applied
      THEN /\ IF repack
                THEN \E lay \in Layouts : cache' = Repack(lay, filteredData)
                ELSE cache' = cache
           /\ dots' = Circles(x', rawData, cache')
           /\ placedLabels' = drawAnnotations(keyEvents, rawData, x', width)
           /\ connectors' = Connectors(placedLabels', rawData, filteredData, cache)
           /\ stages' = IF repack THEN << "domain", "axis", "annotations", "relax", "markers" >>
                        ELSE << "domain", "axis", "annotations", "markers" >>
      ELSE /\ UNCHANGED << cache, dots, placedLabels, connectors >>
           /\ stages' = << >>

\* setDomainAndRedraw beyond x.domain: the relaxation when asked to repack, the circles and
\* the annotations; nothing when the handler returned before calling it
Redraw(applied, repack) ==
    IF applied
      THEN /\ IF repack
                THEN \E lay \in Layouts : cache' = Repack(lay, filteredData)
                ELSE cache' = cache
           /\ dots' = Circles(x', rawData, cache')
           /\ placedLabels' = drawAnnotations(keyEvents, rawData, x', width)
           /\ connectors' = Connectors(placedLabels', rawData, filteredData, cache')
           /\ stages' = RedrawStages(repack)
      ELSE /\ UNCHANGED << cache, dots, placedLabels, connectors >>
           /\ stages' = << >>

History(op, arg) == [ op |-> op, arg |-> arg, d0 |-> x.d0, d1 |-> x.d1 ]

CurrentCriteria == Criteria(selectedCats, selectedTopics, selectedSources, onlyKeyEvents, searchValue)

(***************************************************************************)
(* Construction and load                                                   *)
(***************************************************************************)
NoCall == [ start |-> 0, end |-> 0, min |-> 0, max |-> 0 ]

NoResult == [ done |-> FALSE, s |-> 0, e |-> 0 ]

InitPage(touchDevice) ==
    /\ dateParse \in Engines
    /\ isTouch = touchDevice
    /\ rawData = << >>
    /\ FULL_EXTENT = NoExtent
    /\ selectedCats = LegendKeys
    /\ selectedTopics = {}
    /\ selectedSources = {}
    /\ onlyKeyEvents = FALSE
    /\ searchValue = << >>
    /\ filteredData = << >>
    /\ keyEvents = << >>
    /\ x = NoScale
    /\ width \in Widths
    /\ didInitialFit = FALSE
    /\ lastX = NoPx
    /\ touch = NoTouch
    /\ last = [ op |-> "init", arg |-> 0, d0 |-> 0, d1 |-> 0 ]
    /\ cache = NoCache
    /\ dots = NoCache
    /\ placedLabels = << >>
    /\ connectors = << >>
    /\ viewed = {}
    /\ lastClicked = NoRow
    /\ stages = << >>

\* a device with a mouse and no touch screen
Init ==
    /\ InitPage(FALSE)
    /\ cdIn = NoCall
    /\ cdOut = NoResult

\* d3.csv(...).then: rawData, FULL_EXTENT, setupFilters() (every option on), updateChart()
Load(rows) ==
    /\ ~FULL_EXTENT.ok
    /\ LET ext == [ ok |-> TRUE, min |-> MinDate(rows, Indices(rows)),
                    max |-> MaxDate(rows, Indices(rows)) ]
       IN  /\ rawData' = rows
           /\ FULL_EXTENT' = ext
           /\ selectedTopics' = TopicItems(rows)
           /\ selectedSources' = SourceOptions(rows)
           /\ UpdateChart(rows, Criteria(selectedCats, TopicItems(rows), SourceOptions(rows),
                                         onlyKeyEvents, searchValue), width, ext)
    /\ last' = History("load", 0)
    /\ UNCHANGED << dateParse, isTouch, viewed, lastClicked, selectedCats, onlyKeyEvents, searchValue, width, cdIn, cdOut >>

\* the legend row's click handler (the legend exists once a chart was drawn)
LegendClick(k) ==
    /\ x.ok
    /\ LET cats == IF k \in selectedCats THEN selectedCats \ { k } ELSE selectedCats \cup { k }
       IN  /\ selectedCats' = cats
           /\ UpdateChart(rawData, [ CurrentCriteria EXCEPT !.cats = cats ], width, FULL_EXTENT)
    /\ last' = History("legend", 0)
    /\ UNCHANGED << dateParse, isTouch, viewed, lastClicked, rawData, FULL_EXTENT, selectedTopics, selectedSources,
                    onlyKeyEvents, searchValue, width, cdIn, cdOut >>

\* resizeChart()
Resize(w) ==
    /\ width' = w
    /\ UpdateChart(rawData, CurrentCriteria, w, FULL_EXTENT)
    /\ last' = History("resize", 0)
    /\ UNCHANGED << dateParse, isTouch, viewed, lastClicked, rawData, FULL_EXTENT, selectedCats, selectedTopics,
                    selectedSources, onlyKeyEvents, searchValue, cdIn, cdOut >>

\* a click (or Space / Enter) on one option of the topic list
TopicClick(l) ==
    /\ l \in TopicItems(rawData)
    /\ LET on == IF l \in selectedTopics THEN selectedTopics \ { l } ELSE selectedTopics \cup { l }
       IN  /\ selectedTopics' = on
           /\ UpdateChart(rawData, [ CurrentCriteria EXCEPT !.topics = on ], width, FULL_EXTENT)
    /\ last' = History("topic", 0)
    /\ UNCHANGED << dateParse, isTouch, viewed, lastClicked, rawData, FULL_EXTENT, selectedCats, selectedSources,
                    onlyKeyEvents, searchValue, width, cdIn, cdOut >>

\* buttons that switch the options without recomputing the chart
TopicSelectAllStale(on) ==
    /\ FULL_EXTENT.ok
    /\ selectedTopics' = IF on THEN TopicItems(rawData) ELSE {}
    /\ last' = History(IF on THEN "topicsOn" ELSE "topicsOff", 0)
    /\ UNCHANGED << dateParse, isTouch, viewed, lastClicked, rawData, FULL_EXTENT, selectedCats, selectedSources,
                    onlyKeyEvents, searchValue, width, cdIn, cdOut, filteredData, keyEvents, x,
                    cache, dots, placedLabels, connectors, didInitialFit, lastX, touch >>
    /\ stages' = << >>

\* "Select all" and "Deselect all" of the topic list
TopicSelectAll(on) ==
    /\ FULL_EXTENT.ok
    /\ LET sel == IF on THEN TopicItems(rawData) ELSE {}
       IN  /\ selectedTopics' = sel
           /\ UpdateChart(rawData, [ CurrentCriteria EXCEPT !.topics = sel ], width, FULL_EXTENT)
    /\ last' = History(IF on THEN "topicsOn" ELSE "topicsOff", 0)
    /\ UNCHANGED << dateParse, isTouch, viewed, lastClicked, rawData, FULL_EXTENT, selectedCats, selectedSources,
                    onlyKeyEvents, searchValue, width, cdIn, cdOut >>

\* a click (or Space / Enter) on one option of the source list
SourceClick(v) ==
    /\ v \in SourceOptions(rawData)
    /\ LET on == IF v \in selectedSources THEN selectedSources \ { v } ELSE selectedSources \cup { v }
       IN  /\ selectedSources' = on
           /\ UpdateChart(rawData, [ CurrentCriteria EXCEPT !.sources = on ], width, FULL_EXTENT)
    /\ last' = History("source", 0)
    /\ UNCHANGED << dateParse, isTouch, viewed, lastClicked, rawData, FULL_EXTENT, selectedCats, selectedTopics,
                    onlyKeyEvents, searchValue, width, cdIn, cdOut >>

\* "Select all" and "Deselect all" of the source list
SourceSelectAll(on) ==
    /\ FULL_EXTENT.ok
    /\ LET sel == IF on THEN SourceOptions(rawData) ELSE {}
       IN  /\ selectedSources' = sel
           /\ UpdateChart(rawData, [ CurrentCriteria EXCEPT !.sources = sel ], width, FULL_EXTENT)
    /\ last' = History(IF on THEN "sourcesOn" ELSE "sourcesOff", 0)
    /\ UNCHANGED << dateParse, isTouch, viewed, lastClicked, rawData, FULL_EXTENT, selectedCats, selectedTopics,
                    onlyKeyEvents, searchValue, width, cdIn, cdOut >>

\* the change handler of the "key events only" checkbox
KeyEventFilterChange ==
    /\ onlyKeyEvents' = ~onlyKeyEvents
    /\ UpdateChart(rawData, [ CurrentCriteria EXCEPT !.onlyKey = ~onlyKeyEvents ], width, FULL_EXTENT)
    /\ last' = History("keyOnly", 0)
    /\ UNCHANGED << dateParse, isTouch, viewed, lastClicked, rawData, FULL_EXTENT, selectedCats, selectedTopics,
                    selectedSources, searchValue, width, cdIn, cdOut >>

\* the input handler of the search box
SearchInput(text) ==
    /\ text # searchValue
    /\ searchValue' = text
    /\ UpdateChart(rawData, [ CurrentCriteria EXCEPT !.search = text ], width, FULL_EXTENT)
    /\ last' = History("search", 0)
    /\ UNCHANGED << dateParse, isTouch, viewed, lastClicked, rawData, FULL_EXTENT, selectedCats, selectedTopics,
                    selectedSources, onlyKeyEvents, width, cdIn, cdOut >>

\* clicks that flag the row that is clicked
DotClickFlagsClicked(i) ==
    /\ x.ok
    /\ i \in DOMAIN dots
    /\ viewed' = viewed \cup { i }
    /\ lastClicked' = i
    /\ last' = History("dotClick", i)
    /\ UNCHANGED << x, lastX, touch, cache, dots, placedLabels, connectors >>
    /\ stages' = << >>
    /\ UNCHANGED << dateParse, isTouch, rawData, FULL_EXTENT, selectedCats, selectedTopics,
                    selectedSources, onlyKeyEvents, searchValue, filteredData, keyEvents, width,
                    didInitialFit, cdIn, cdOut >>

\* if (lastClicked && lastClicked !== d) lastClicked.viewed = true; lastClicked = d;
Select(i) ==
    /\ viewed' = IF lastClicked # NoRow /\ lastClicked # i THEN viewed \cup { lastClicked }
                 ELSE viewed
    /\ lastClicked' = i

\* the click handler of the circle of row i
DotClick(i) ==
    /\ x.ok
    /\ i \in DOMAIN dots
    /\ Select(i)
    /\ last' = History("dotClick", i)
    /\ UNCHANGED << x, lastX, touch, cache, dots, placedLabels, connectors >>
    /\ stages' = << >>
    /\ UNCHANGED << dateParse, isTouch, rawData, FULL_EXTENT, selectedCats, selectedTopics,
                    selectedSources, onlyKeyEvents, searchValue, filteredData, keyEvents, width,
                    didInitialFit, cdIn, cdOut >>

\* the click handler of the k-th label
LabelClick(k) ==
    /\ x.ok
    /\ k \in 1 .. Len(placedLabels)
    /\ LET match == Match(rawData, filteredData, placedLabels[k].ev)
       IN  IF match # NoRow THEN Select(match) ELSE UNCHANGED << viewed, lastClicked >>
    /\ last' = History("labelClick", k)
    /\ UNCHANGED << x, lastX, touch, cache, dots, placedLabels, connectors >>
    /\ stages' = << >>
    /\ UNCHANGED << dateParse, isTouch, rawData, FULL_EXTENT, selectedCats, selectedTopics,
                    selectedSources, onlyKeyEvents, searchValue, filteredData, keyEvents, width,
                    didInitialFit, cdIn, cdOut >>

(***************************************************************************)
(* Zoom buttons, wheel, drag                                               *)
(***************************************************************************)
\* what a handler leaves alone besides the scale, the drag position and the history
Page == << dateParse, isTouch, viewed, lastClicked, rawData, FULL_EXTENT, selectedCats, selectedTopics,
           selectedSources, onlyKeyEvents, searchValue, filteredData, keyEvents, width,
           didInitialFit, cdIn, cdOut >>

\* zoomBy(fn / fd) with no anchor proposes the span (d1 - d0) / (fn / fd) about the midpoint
ZoomProposal(sc, fn, fd) ==
    LET S  == sc.d1 - sc.d0
        c2 == sc.d0 + sc.d1
    IN  << NewDate(c2 * fn - S * fd, 2 * fn), NewDate(c2 * fn + S * fd, 2 * fn) >>

\* zoomBy without its "don't allow zoom out beyond the full dataset" step
ZoomWindowNoSnap(sc, ext, fn, fd) ==
    IF IsNaN(sc.d0) \/ IsNaN(sc.d1)
      THEN << NaN, NaN >>
      ELSE LET S  == sc.d1 - sc.d0
               p  == ZoomProposal(sc, fn, fd)
               lo == IF p[1] < ext.min
                       THEN << ext.min, NewDate(ext.min * fn + S * fd, fn) >>
                       ELSE p
               hi == IF lo[2] > ext.max
                       THEN << NewDate(ext.max * fn - S * fd, fn), ext.max >>
                       ELSE lo
           IN  IF hi[2] - hi[1] < MIN_SPAN_MS THEN << sc.d0, sc.d1 >> ELSE hi

\* zoomBy with the lower-bound translation of clampDomain (end taken from `min + span` on
\* a Date, read as the date itself) in place of its own numeric one
ZoomWindowDateMin(sc, ext, fn, fd) ==
    IF IsNaN(sc.d0) \/ IsNaN(sc.d1)
      THEN << NaN, NaN >>
      ELSE LET S  == sc.d1 - sc.d0
               p  == ZoomProposal(sc, fn, fd)
               f  == IF p[2] - p[1] > ext.max - ext.min THEN << ext.min, ext.max >> ELSE p
               lo == IF f[1] < ext.min THEN << ext.min, ext.min >> ELSE f
               hi == IF lo[2] > ext.max
                       THEN << NewDate(ext.max * fn - S * fd, fn), ext.max >>
                       ELSE lo
           IN  IF hi[2] - hi[1] < MIN_SPAN_MS THEN << sc.d0, sc.d1 >> ELSE hi

\* zoomBy(fn / fd) with no anchor: the window it applies, or the current one when it returns early
ZoomWindow(sc, ext, fn, fd) ==
    IF IsNaN(sc.d0) \/ IsNaN(sc.d1)
      THEN << NaN, NaN >>
      ELSE LET S  == sc.d1 - sc.d0
               p  == ZoomProposal(sc, fn, fd)
               f  == IF p[2] - p[1] > ext.max - ext.min THEN << ext.min, ext.max >> ELSE p
               lo == IF f[1] < ext.min
                       THEN << ext.min, NewDate(ext.min * fn + S * fd, fn) >>
                       ELSE f
               hi == IF lo[2] > ext.max
                       THEN << NewDate(ext.max * fn - S * fd, fn), ext.max >>
                       ELSE lo
           IN  IF hi[2] - hi[1] < MIN_SPAN_MS THEN << sc.d0, sc.d1 >> ELSE hi

\* zoomBy reaches setDomainAndRedraw: the window after its clamps is not below minZoomSpan
ZoomApplies(sc, ext, fn, fd) ==
    \/ IsNaN(sc.d0) \/ IsNaN(sc.d1)
    \/ LET S  == sc.d1 - sc.d0
           p  == ZoomProposal(sc, fn, fd)
           f  == IF p[2] - p[1] > ext.max - ext.min THEN << ext.min, ext.max >> ELSE p
           lo == IF f[1] < ext.min
                   THEN << ext.min, NewDate(ext.min * fn + S * fd, fn) >>
                   ELSE f
           hi == IF lo[2] > ext.max
                   THEN << NewDate(ext.max * fn - S * fd, fn), ext.max >>
                   ELSE lo
       IN  ~(hi[2] - hi[1] < MIN_SPAN_MS)

zoomBy(op, fn, fd) ==
    /\ x' = IF ~x.ok \/ filteredData = << >>
              THEN x
              ELSE LET win == ZoomWindow(x, FULL_EXTENT, fn, fd)
                   IN  SetDomain(x, win[1], win[2])
    /\ Redraw(x.ok /\ filteredData # << >> /\ ZoomApplies(x, FULL_EXTENT, fn, fd), TRUE)
    /\ last' = History(op, 0)
    /\ UNCHANGED << lastX, touch >>
    /\ UNCHANGED Page

\* #zoomInBtn: zoomBy(1.25)
ZoomInBtn == zoomBy("zoomIn", 5, 4)

\* #zoomOutBtn: zoomBy(0.8)
ZoomOutBtn == zoomBy("zoomOut", 4, 5)

\* the wheel handler proposes the domain scaled by k = kn / 10 about the date under the pointer
\* a wheel whose factors are exchanged
WheelProposalSwapped(sc, mouseX, kn) ==
    LET a == Invert(sc, mouseX)
    IN  IF IsNaN(a)
          THEN << NaN, NaN >>
          ELSE << NewDate(10 * a - (a - sc.d0) * (20 - kn), 10),
                  NewDate(10 * a + (sc.d1 - a) * (20 - kn), 10) >>

WheelProposal(sc, mouseX, kn) ==
    LET a == Invert(sc, mouseX)
    IN  IF IsNaN(a)
          THEN << NaN, NaN >>
          ELSE << NewDate(10 * a - (a - sc.d0) * kn, 10), NewDate(10 * a + (sc.d1 - a) * kn, 10) >>

\* the wheel handler's window: the clamped proposal, or the current domain when it returns early
WheelWindow(sc, ext, mouseX, kn, engine) ==
    LET p   == WheelProposal(sc, mouseX, kn)
        c   == clampDomain(p[1], p[2], ext.min, ext.max, engine)
        atFullExtent   == StrictEq(sc.d0, ext.min) /\ StrictEq(sc.d1, ext.max)
        wantFullExtent == StrictEq(c[1], ext.min) /\ StrictEq(c[2], ext.max)
    IN  IF LE(Minus(c[2], c[1]), MIN_SPAN_MS) THEN << sc.d0, sc.d1 >>
        ELSE IF atFullExtent /\ wantFullExtent /\ kn > 10 THEN << sc.d0, sc.d1 >>
        ELSE c

\* the wheel handler reaches setDomainAndRedraw
WheelApplies(sc, ext, mouseX, kn, engine) ==
    LET p   == WheelProposal(sc, mouseX, kn)
        c   == clampDomain(p[1], p[2], ext.min, ext.max, engine)
        atFullExtent   == StrictEq(sc.d0, ext.min) /\ StrictEq(sc.d1, ext.max)
        wantFullExtent == StrictEq(c[1], ext.min) /\ StrictEq(c[2], ext.max)
    IN  ~LE(Minus(c[2], c[1]), MIN_SPAN_MS) /\ ~(atFullExtent /\ wantFullExtent /\ kn > 10)

\* repack = Math.abs(newSpan - oldSpan) > 5
SpanChanged(sc, win) ==
    LET newSpan == Minus(win[2], win[1])
        oldSpan == Minus(sc.d1, sc.d0)
    IN  ~IsNaN(newSpan) /\ ~IsNaN(oldSpan) /\ Abs(newSpan - oldSpan) > RepackThreshold

\* svg.on("wheel"): deltaY > 0 gives the factor 1.1, otherwise 0.9
Wheel(mouseX, up) ==
    /\ x.ok /\ ~isTouch
    /\ LET win == WheelWindow(x, FULL_EXTENT, mouseX, IF up THEN 11 ELSE 9, dateParse)
       IN  /\ x' = SetDomain(x, win[1], win[2])
           /\ Redraw(WheelApplies(x, FULL_EXTENT, mouseX, IF up THEN 11 ELSE 9, dateParse),
                     SpanChanged(x, win))
    /\ last' = History(IF up THEN "wheelOut" ELSE "wheelIn", mouseX)
    /\ UNCHANGED << lastX, touch >>
    /\ UNCHANGED Page

\* a pan by dxPx pixels: both ends shifted by x.invert(0) - x.invert(dxPx), then clamped
PanWindow(sc, ext, dxPx, engine) ==
    LET dt == Minus(Invert(sc, 0), Invert(sc, dxPx))
    IN  clampDomain(NewDate(Plus(sc.d0, dt), 1), NewDate(Plus(sc.d1, dt), 1),
                    ext.min, ext.max, engine)

\* d3.drag "start"
DragStart(px) ==
    /\ x.ok
    /\ lastX' = px
    /\ last' = History("dragStart", 0)
    /\ UNCHANGED << x, touch, cache, dots, placedLabels, connectors >>
    /\ stages' = << >>
    /\ UNCHANGED Page

\* d3.drag "drag"
DragMove(px) ==
    /\ x.ok
    /\ lastX # NoPx
    /\ LET win == PanWindow(x, FULL_EXTENT, px - lastX, dateParse)
       IN  x' = SetDomain(x, win[1], win[2])
    /\ Redraw(TRUE, FALSE)
    /\ lastX' = px
    /\ last' = History("drag", px - lastX)
    /\ UNCHANGED touch
    /\ UNCHANGED Page

\* d3.drag "end"
DragEnd ==
    /\ x.ok
    /\ lastX # NoPx
    /\ lastX' = NoPx
    /\ last' = History("dragEnd", 0)
    /\ UNCHANGED << x, touch, cache, dots, placedLabels, connectors >>
    /\ stages' = << >>
    /\ UNCHANGED Page

(***************************************************************************)
(* Touch: pointerdown, pointermove, pointerup / pointercancel / pointerleave*)
(***************************************************************************)
Down(t) == { id \in PointerIds : t.active[id] # NoPx }

\* Math.hypot over the two active pointers, and twice their midpoint's x
Dist(act) == Abs(act[1] - act[2])

Mid2(act) == act[1] + act[2]

\* x.invert(px2 / 2) for the range [40, w - 40]
InvertHalf(sc, px2) ==
    IF IsNaN(sc.d0) \/ IsNaN(sc.d1)
      THEN NaN
      ELSE NewDate(sc.d0 * (2 * (sc.w - 80) - (px2 - 80)) + sc.d1 * (px2 - 80), 2 * (sc.w - 80))

\* onPointerDown
PointerDown(id, px) ==
    /\ x.ok /\ isTouch
    /\ touch.active[id] = NoPx
    /\ LET act  == [ touch.active EXCEPT ![id] = px ]
           size == Cardinality({ i \in PointerIds : act[i] # NoPx })
           base == [ ok |-> TRUE, d0 |-> x.d0, d1 |-> x.d1 ]
       IN  touch' = IF size = 1
                      THEN [ touch EXCEPT !.active = act, !.panLastX = px, !.baseDomain = base ]
                      ELSE [ touch EXCEPT !.active = act, !.pinchStartDist = Dist(act),
                                          !.pinchStartMidX2 = Mid2(act), !.baseDomain = base ]
    /\ last' = History("pointerdown", 0)
    /\ UNCHANGED << x, lastX, cache, dots, placedLabels, connectors >>
    /\ stages' = << >>
    /\ UNCHANGED Page

\* anchorDate: the date under the fingers' current midpoint on the current scale
PinchAnchor(sc, act) == InvertHalf(sc, Mid2(act) - 2 * BBoxLeft)

\* the window a pinch move proposes: baseDomain scaled by k = pinchStartDist / dist about
\* the anchor
PinchProposal(sc, t, act) ==
    LET a  == PinchAnchor(sc, act)
        d0 == t.baseDomain.d0
        d1 == t.baseDomain.d1
        ns == IF IsNaN(a) \/ IsNaN(d0) THEN NaN
              ELSE NewDate(a * Dist(act) - (a - d0) * t.pinchStartDist, Dist(act))
        ne == IF IsNaN(a) \/ IsNaN(d1) THEN NaN
              ELSE NewDate(a * Dist(act) + (d1 - a) * t.pinchStartDist, Dist(act))
    IN  << ns, ne >>

\* the proposal, clamped
PinchWindow(sc, ext, t, act, engine) ==
    LET p == PinchProposal(sc, t, act)
    IN  clampDomain(p[1], p[2], ext.min, ext.max, engine)

\* onPointerMove
PointerMove(id, px) ==
    /\ x.ok /\ isTouch
    /\ touch.active[id] # NoPx
    /\ LET act  == [ touch.active EXCEPT ![id] = px ]
           size == Cardinality(Down(touch))
       IN  IF size = 2 /\ touch.pinchStartDist # NoPx /\ touch.pinchStartDist # 0
             THEN /\ touch' = [ touch EXCEPT !.active = act ]
                  /\ x' = IF Dist(act) <= 0
                            THEN x
                            ELSE LET win == PinchWindow(x, FULL_EXTENT, touch, act, dateParse)
                                 IN  SetDomain(x, win[1], win[2])
                  /\ Redraw(Dist(act) > 0,
                            SpanChanged([ d0 |-> touch.baseDomain.d0, d1 |-> touch.baseDomain.d1 ],
                                        PinchWindow(x, FULL_EXTENT, touch, act, dateParse)))
                  /\ last' = History("pinch", 0)
             ELSE IF size = 1 /\ touch.panLastX # NoPx
                    THEN /\ touch' = [ touch EXCEPT !.active = act, !.panLastX = px ]
                         /\ LET win == PanWindow(x, FULL_EXTENT, px - touch.panLastX, dateParse)
                            IN  x' = SetDomain(x, win[1], win[2])
                         /\ Redraw(TRUE, FALSE)
                         /\ last' = History("touchPan", px - touch.panLastX)
                    ELSE /\ touch' = [ touch EXCEPT !.active = act ]
                         /\ x' = x
                         /\ UNCHANGED << cache, dots, placedLabels, connectors >>
                         /\ stages' = << >>
                         /\ last' = History("pointermove", 0)
    /\ UNCHANGED lastX
    /\ UNCHANGED Page

\* a release that forgets the pinch but keeps the pan position and the base domain
PointerUpKeepsPan(id) ==
    /\ x.ok /\ isTouch
    /\ LET act  == [ touch.active EXCEPT ![id] = NoPx ]
           size == Cardinality({ i \in PointerIds : act[i] # NoPx })
           t1   == [ touch EXCEPT !.active = act ]
       IN  touch' = IF size < 2 THEN [ t1 EXCEPT !.pinchStartDist = NoPx, !.pinchStartMidX2 = NoPx ]
                    ELSE t1
    /\ last' = History("pointerup", 0)
    /\ UNCHANGED << x, lastX, cache, dots, placedLabels, connectors >>
    /\ stages' = << >>
    /\ UNCHANGED Page

\* onPointerUp (pointerup, pointercancel and pointerleave)
PointerUp(id) ==
    /\ x.ok /\ isTouch
    /\ LET act  == [ touch.active EXCEPT ![id] = NoPx ]
           size == Cardinality({ i \in PointerIds : act[i] # NoPx })
           t1   == [ touch EXCEPT !.active = act ]
           t2   == IF size < 2 THEN [ t1 EXCEPT !.pinchStartDist = NoPx, !.pinchStartMidX2 = NoPx ]
                   ELSE t1
       IN  touch' = IF size = 0
                      THEN [ t2 EXCEPT !.panLastX = NoPx,
                                       !.baseDomain = [ ok |-> FALSE, d0 |-> 0, d1 |-> 0 ] ]
                      ELSE t2
    /\ last' = History("pointerup", 0)
    /\ UNCHANGED << x, lastX, cache, dots, placedLabels, connectors >>
    /\ stages' = << >>
    /\ UNCHANGED Page

\* the legend rows clicked while the viewport is exercised (every row is clicked under
\* SpecFilter)
ViewportLegendKeys == { "biological", "chemical", "key" }

Next ==
    \/ \E rows \in DataSets : Load(rows)
    \/ \E k \in ViewportLegendKeys : LegendClick(k)
    \/ \E w \in Widths : Resize(w)
    \/ ZoomInBtn
    \/ ZoomOutBtn
    \/ \E px \in WheelPixels, up \in BOOLEAN : Wheel(px, up)
    \/ \E px \in DragPixels : DragStart(px)
    \/ \E px \in DragPixels : DragMove(px)
    \/ DragEnd

Spec == Init /\ [][Next]_vars

\* a device with a touch screen: no wheel handler, the pointer handlers are bound.
\* NextTouch is the gestures of the touch screen and the redraw of a rotated screen; the zoom
\* buttons and the drag behaviour are exercised under Spec, the legend under SpecFilter.
InitTouch ==
    /\ InitPage(TRUE)
    /\ cdIn = NoCall
    /\ cdOut = NoResult

NextTouch ==
    \/ \E rows \in DataSets : Load(rows)
    \/ \E w \in Widths : Resize(w)
    \/ \E id \in PointerIds, px \in TouchPixels : PointerDown(id, px)
    \/ \E id \in PointerIds, px \in TouchPixels : PointerMove(id, px)
    \/ \E id \in PointerIds : PointerUp(id)

SpecTouch == InitTouch /\ [][NextTouch]_vars

(***************************************************************************)
(* clampDomain on its own: one call on arguments drawn from bounded sets.  *)
(* The bounds are Date objects with min <= max; the proposed window is any *)
(* pair of valid Dates, inverted and out-of-bounds ones included.          *)
(***************************************************************************)
ClampLow == 7

ClampMargin == 16

ClampBounds ==
    { << mn, mn + sp >> : mn \in { -ClampLow, 3 }, sp \in { 0, ShortSpan, MIN_SPAN_MS, LongSpan } }

InitClamp ==
    /\ InitPage(FALSE)
    /\ \E b \in ClampBounds :
         cdIn \in [ start : (b[1] - ClampMargin) .. (b[2] + ClampMargin),
                    end   : (b[1] - ClampMargin) .. (b[2] + ClampMargin),
                    min   : { b[1] },
                    max   : { b[2] } ]
    /\ cdOut = NoResult

ClampCall ==
    /\ ~cdOut.done
    /\ LET r == clampDomain(cdIn.start, cdIn.end, cdIn.min, cdIn.max, dateParse)
       IN  cdOut' = [ done |-> TRUE, s |-> r[1], e |-> r[2] ]
    /\ UNCHANGED << dateParse, isTouch, viewed, lastClicked, rawData, FULL_EXTENT, selectedCats, selectedTopics,
                    selectedSources, onlyKeyEvents, searchValue, filteredData, keyEvents, x,
                    width, didInitialFit, lastX, touch, last, cdIn, cache, dots,
                    placedLabels, stages, connectors >>

NextClamp == ClampCall

SpecClamp == InitClamp /\ [][NextClamp]_vars

(***************************************************************************)
(* Properties of clampDomain (under SpecClamp)                             *)
(***************************************************************************)
ProposedSpan == cdIn.end - cdIn.start

BoundsSpan == cdIn.max - cdIn.min

\* C1: for every proposed window and every bounds with min <= max, clampDomain returns
\* a window [s, e] with min <= s and e <= max.
C1_ClampInsideBounds ==
    cdOut.done => GE(cdOut.s, cdIn.min) /\ LE(cdOut.e, cdIn.max)

\* C2: the result's span is >= MIN_SPAN_MS whenever the bounds' span is; when the bounds
\* are shorter than MIN_SPAN_MS the result is exactly the full extent [min, max].
C2_ClampMinSpan ==
    cdOut.done =>
        IF BoundsSpan >= MIN_SPAN_MS
          THEN GE(Minus(cdOut.e, cdOut.s), MIN_SPAN_MS)
          ELSE StrictEq(cdOut.s, cdIn.min) /\ StrictEq(cdOut.e, cdIn.max)

\* C8: whenever the proposed span is >= the bounds' span, clampDomain returns exactly the
\* full extent [min, max], wherever the proposed window lies.
C8_ClampSnapsToFullExtent ==
    (cdOut.done /\ ProposedSpan >= BoundsSpan) => (cdOut.s = cdIn.min /\ cdOut.e = cdIn.max)

\* C8 witness: a window at least as long as the bounds that is not the bounds themselves
\* and sticks out below them has been clamped.
C8_Witness ==
    /\ cdOut.done
    /\ ProposedSpan >= BoundsSpan
    /\ BoundsSpan > 0
    /\ cdIn.start < cdIn.min

\* C9: a non-inverted proposed window with MIN_SPAN_MS <= span < bounds' span comes back
\* with exactly its span: itself when it lies inside the bounds, otherwise translated
\* flush against the bound it overflowed, lower or upper.
C9_ClampPreservesSpan ==
    (cdOut.done /\ ProposedSpan >= MIN_SPAN_MS /\ ProposedSpan < BoundsSpan) =>
        IF cdIn.start < cdIn.min
          THEN StrictEq(cdOut.s, cdIn.min) /\ StrictEq(cdOut.e, cdIn.min + ProposedSpan)
          ELSE IF cdIn.end > cdIn.max
                 THEN StrictEq(cdOut.s, cdIn.max - ProposedSpan) /\ StrictEq(cdOut.e, cdIn.max)
                 ELSE StrictEq(cdOut.s, cdIn.start) /\ StrictEq(cdOut.e, cdIn.end)

\* C10: clampDomain never returns an inverted window: the result [s, e] satisfies s <= e
\* for every proposed window, equal or inverted endpoints included.
C10_ClampNeverInverted ==
    cdOut.done => LE(cdOut.s, cdOut.e)

(***************************************************************************)
(* Properties of the active domain (under Spec)                            *)
(***************************************************************************)
FullSpan == FULL_EXTENT.max - FULL_EXTENT.min

AtFullExtent == x.ok /\ x.d0 = FULL_EXTENT.min /\ x.d1 = FULL_EXTENT.max

\* the scale as the last handler found it
Before == [ x EXCEPT !.d0 = last.d0, !.d1 = last.d1 ]

WasAtFullExtent == x.ok /\ last.d0 = FULL_EXTENT.min /\ last.d1 = FULL_EXTENT.max

DomainUnchanged == x.d0 = last.d0 /\ x.d1 = last.d1

\* C3: in every state reachable after load the active domain [start, end] satisfies
\* start <= end and lies inside the full dataset extent.
C3_DomainInsideFullExtent ==
    x.ok => /\ LE(x.d0, x.d1)
            /\ GE(x.d0, FULL_EXTENT.min)
            /\ LE(x.d1, FULL_EXTENT.max)

\* C4: while the visible set is non-empty the active domain's span is >= MIN_SPAN_MS,
\* unless the full dataset span is itself shorter, in which case the domain equals the
\* full extent.
C4_DomainMinSpan ==
    (x.ok /\ filteredData # << >>) =>
        IF FullSpan >= MIN_SPAN_MS
          THEN GE(Minus(x.d1, x.d0), MIN_SPAN_MS)
          ELSE AtFullExtent

\* C6: if the active domain already equals the full extent, a zoom-out request (the
\* zoom-out button or a wheel tick with deltaY > 0) leaves it equal to the full extent.
C6_ZoomOutAtFullExtentStays ==
    (last.op \in { "zoomOut", "wheelOut" } /\ WasAtFullExtent) => AtFullExtent

\* C6 witness: the zoom-out button was pressed with rows visible while the domain was the
\* full extent of a data set longer than MIN_SPAN_MS, so zoomBy went through its clamps.
C6_Witness ==
    /\ last.op = "zoomOut"
    /\ WasAtFullExtent
    /\ filteredData # << >>
    /\ FullSpan > MIN_SPAN_MS
    /\ AtFullExtent

\* C7: a zoom-in request (the zoom-in button or a wheel tick with deltaY <= 0) whose
\* proposed window is shorter than MIN_SPAN_MS is rejected: the domain stays as it was.
C7_ZoomInBelowMinSpanRejected ==
    /\ ( /\ last.op = "zoomIn"
         /\ filteredData # << >>
         /\ ~IsNaN(last.d0) /\ ~IsNaN(last.d1)
         /\ LET p == ZoomProposal(Before, 5, 4) IN p[2] - p[1] < MIN_SPAN_MS )
       => DomainUnchanged
    /\ ( /\ last.op = "wheelIn"
         /\ LET p == WheelProposal(Before, last.arg, 9) IN LT(Minus(p[2], p[1]), MIN_SPAN_MS) )
       => DomainUnchanged

(***************************************************************************)
(* Repeated zoom-out: the zoom-out button is pressed again and again, and  *)
(* each press is handled.                                                  *)
(***************************************************************************)
SpecZoomOut == Init /\ [][Next]_vars /\ WF_vars(ZoomOutBtn)

\* C5: from every reachable state with a non-empty visible set, zoom-out requests applied
\* from then on eventually make the active domain equal to the full dataset extent.
C5_ZoomOutReachesFullExtent ==
    <>[](last.op = "zoomOut" /\ filteredData # << >>) => []<>AtFullExtent

(***************************************************************************)
(* zoomBy's window (under Spec)                                            *)
(***************************************************************************)
\* the last handler was a press of a zoom button that found rows and a valid domain
ZoomPressed ==
    /\ last.op \in { "zoomIn", "zoomOut" }
    /\ x.ok /\ filteredData # << >>
    /\ ~IsNaN(last.d0) /\ ~IsNaN(last.d1)

\* the factor of that press as numerator and denominator
ZoomFn == IF last.op = "zoomIn" THEN 5 ELSE 4

ZoomFd == IF last.op = "zoomIn" THEN 4 ELSE 5

\* currentSpan / factor >= MIN_SPAN_MS
ZoomSpanAtLeastMin == (last.d1 - last.d0) * ZoomFd >= MIN_SPAN_MS * ZoomFn

\* currentSpan / factor <= the full span
ZoomSpanFits == (last.d1 - last.d0) * ZoomFd <= FullSpan * ZoomFn

\* the window zoomBy is to apply: the proposal when it lies inside the full extent, else
\* the window of span currentSpan / factor flush against the bound the proposal overflowed
ZoomExpected ==
    LET p  == ZoomProposal(Before, ZoomFn, ZoomFd)
        S  == last.d1 - last.d0
    IN  IF p[1] < FULL_EXTENT.min
          THEN << FULL_EXTENT.min, NewDate(FULL_EXTENT.min * ZoomFn + S * ZoomFd, ZoomFn) >>
          ELSE IF p[2] > FULL_EXTENT.max
                 THEN << NewDate(FULL_EXTENT.max * ZoomFn - S * ZoomFd, ZoomFn), FULL_EXTENT.max >>
                 ELSE p

\* centre - span / 2 < min and centre + span / 2 > max: the proposal sticks out of the
\* full extent on both sides
ZoomOverflowsBoth ==
    LET S  == last.d1 - last.d0
        c2 == last.d0 + last.d1
    IN  /\ c2 * ZoomFn - S * ZoomFd < 2 * ZoomFn * FULL_EXTENT.min
        /\ c2 * ZoomFn + S * ZoomFd > 2 * ZoomFn * FULL_EXTENT.max

PanStepped ==
    /\ last.op = "drag"
    /\ x.ok
    /\ ~IsNaN(last.d0) /\ ~IsNaN(last.d1)
    /\ last.d1 - last.d0 >= MIN_SPAN_MS
    /\ last.d1 - last.d0 <= FullSpan

\* both endpoints shifted by dt = scale.invert(0) - scale.invert(p), p the pixel delta
PanShifted ==
    LET dt == Invert(Before, 0) - Invert(Before, last.arg)
    IN  << last.d0 + dt, last.d1 + dt >>

\* the shifted window, stopped at the edge of the full extent it ran into
PanExpected ==
    LET S == last.d1 - last.d0
    IN  IF PanShifted[1] < FULL_EXTENT.min
          THEN << FULL_EXTENT.min, FULL_EXTENT.min + S >>
          ELSE IF PanShifted[2] > FULL_EXTENT.max
                 THEN << FULL_EXTENT.max - S, FULL_EXTENT.max >>
                 ELSE PanShifted

\* C12: a pan step on a domain whose span is >= MIN_SPAN_MS keeps the span: the result is
\* the window shifted by dt if that lies inside the full extent, and otherwise the
\* same-span window stopped at the edge (left or right) it ran into.
C12_PanKeepsSpan ==
    PanStepped => (StrictEq(x.d0, PanExpected[1]) /\ StrictEq(x.d1, PanExpected[2]))

(***************************************************************************)
(* Reprojection: a pan redraws the dots from the cache (under Spec)        *)
(***************************************************************************)
\* every circle on the chart sits at x(d.date) + d.xOffset, d.ySim
DotsFollowCache ==
    /\ DOMAIN dots = DOMAIN cache
    /\ \A i \in DOMAIN dots :
         /\ dots[i].cy = cache[i].ySim
         /\ \/ IsNaNPx(dots[i].cx) /\ IsNaNPx(ScalePx(x, rawData[i].date))
            \/ PxEq(dots[i].cx, PxPlus(ScalePx(x, rawData[i].date), IntPx(cache[i].xOffset)))

\* a pan step leaves the cached offsets and heights as they were
PanKeepsCache == (last'.op = "drag") => (cache' = cache)

\* a pan step moves every circle by the same number of pixels
PanShiftsDotsAlike ==
    (last'.op = "drag") =>
        \A i, j \in DOMAIN dots :
            PxEq(PxMinus(dots'[i].cx, dots[i].cx), PxMinus(dots'[j].cx, dots[j].cx))

\* C13: a pan step leaves every event's cached offsetX and y unchanged, draws each marker
\* at newScale(time) + cached offsetX, and so moves every marker by the pan's pixel shift
\* and by nothing else.
C13_PanReprojectsDots ==
    [][ PanKeepsCache /\ ((last'.op = "drag") => DotsFollowCache') /\ PanShiftsDotsAlike ]_vars

(***************************************************************************)
(* The filter controls on their own: every legend row, the two option      *)
(* lists with their buttons, the checkbox and the search box.              *)
(***************************************************************************)
\* a file whose rows fall on two days, with two topics and one source
RowsFilter ==
    << Row(0,        << "biological" >>,             << "t1" >>,       "s1", FALSE, << "a" >>, << >>),
       Row(0,        << "chemical" >>,               << >>,            "",   TRUE,  << "b" >>, << >>),
       Row(LongSpan, << "biological", "chemical" >>, << "t1", "t2" >>, "s1", TRUE,  << "c" >>, << "B" >>),
       Row(LongSpan, << "chemical" >>,               << "t2" >>,       "",   FALSE, << "a" >>, << >>) >>

\* a file without topics and without sources: both lists are built with zero options
RowsPlain ==
    << Row(0,        << "biological" >>,             << >>, "", FALSE, << "a" >>, << >>),
       Row(LongSpan, << "chemical", "biological" >>, << >>, "", TRUE,  << "B" >>, << >>) >>

\* a file without topics, with two sources and a row whose source is blank
RowsSources ==
    << Row(0,        << "biological" >>, << >>, "s1", FALSE, << "a" >>, << >>),
       Row(0,        << "chemical" >>,   << >>, "",   TRUE,  << "b" >>, << >>),
       Row(LongSpan, << "chemical" >>,   << >>, "s2", FALSE, << "a" >>, << "B" >>) >>

FilterDataSets == { RowsFilter, RowsPlain, RowsSources }

AllTopicItems == UNION { TopicItems(rows) : rows \in FilterDataSets }

AllSourceOptions == UNION { SourceOptions(rows) : rows \in FilterDataSets }

SearchTexts == { << >>, << " ", "B" >> }

NextFilter ==
    \/ \E rows \in FilterDataSets : Load(rows)
    \/ \E k \in LegendKeys : LegendClick(k)
    \/ \E l \in AllTopicItems : TopicClick(l)
    \/ \E on \in BOOLEAN : TopicSelectAll(on)
    \/ \E v \in AllSourceOptions : SourceClick(v)
    \/ \E on \in BOOLEAN : SourceSelectAll(on)
    \/ KeyEventFilterChange
    \/ \E text \in SearchTexts : SearchInput(text)
    \/ \E w \in Widths : Resize(w)

SpecFilter == Init /\ [][NextFilter]_vars

\* the criteria of the page, read the way the filter description reads them
ActiveCategories == categoryKeys \cap selectedCats

Visible(i) == i \in Range(filteredData)

CategoryPasses(i) ==
    IF Len(rawData[i].categories) > 1
      THEN "multi" \in ActiveCategories
      ELSE \E c \in Range(rawData[i].categories) : c \in ActiveCategories

KeyGatePasses(i) == "key" \in selectedCats \/ ~rawData[i].keyEvent

TopicPasses(i) ==
    IF TopicItems(rawData) = {} THEN TRUE
    ELSE IF selectedTopics = TopicItems(rawData) THEN TRUE
    ELSE \E t \in Range(rawData[i].validTopics) : toTitleCase(t) \in selectedTopics

SourcePasses(i) == sourceMatch(rawData[i], rawData, selectedSources)

KeyOnlyPasses(i) == keyMatch(rawData[i], onlyKeyEvents)

SearchPasses(i) == searchMatch(rawData[i], toLowerCase(trim(searchValue)))

\* C16: topic predicate of the filter. With zero topic options every event passes it; with
\* every option selected every event passes it, events without a valid topic included;
\* otherwise an event passes iff one of its valid topics is selected (nothing passes when no
\* option is selected). An event is visible iff it passes this and the other predicates.
C16_TopicPredicate ==
    \A i \in Indices(rawData) :
        Visible(i) <=> /\ TopicPasses(i)
                       /\ CategoryPasses(i) /\ KeyGatePasses(i) /\ SourcePasses(i)
                       /\ KeyOnlyPasses(i) /\ SearchPasses(i)

\* C16 witness: one of two topics selected; the event with that topic is shown, the event that
\* has no topic is hidden by the topic predicate alone.
C16_Witness ==
    /\ rawData = RowsFilter
    /\ selectedTopics = { "T1" }
    /\ Visible(1)
    /\ ~Visible(2)
    /\ CategoryPasses(2) /\ KeyGatePasses(2) /\ SourcePasses(2) /\ KeyOnlyPasses(2) /\ SearchPasses(2)

\* C17: the visible set is a function of the raw records and the current criteria alone,
\* whatever sequence of toggles led to the criteria: switching the topics on one by one shows
\* what "Select all" shows, and a recomputation with unchanged criteria shows the same set.
C17_VisibleSetFromCriteria == filteredData = FilterRows(rawData, CurrentCriteria)

\* C17 witness: the last topic was switched back on by a click on its option, and the event
\* without a topic is shown again.
C17_Witness ==
    /\ rawData = RowsFilter
    /\ last.op = "topic"
    /\ selectedTopics = TopicItems(rawData)
    /\ Visible(2)

\* C18: category predicate of the filter. An event of several categories passes iff "multi" is
\* active, whatever its own categories; an event of one category passes iff that category is
\* active. An event is visible iff it passes this and the other predicates.
C18_CategoryPredicate ==
    \A i \in Indices(rawData) :
        Visible(i) <=> /\ CategoryPasses(i)
                       /\ KeyGatePasses(i) /\ topicMatch(rawData[i], rawData, selectedTopics)
                       /\ SourcePasses(i) /\ KeyOnlyPasses(i) /\ SearchPasses(i)

\* C18 witness: only "multi" is active; the event of two categories is shown although neither
\* of its categories is active, the event of one category is hidden.
C18_Witness ==
    /\ rawData = RowsFilter
    /\ selectedCats = { "multi", "key" }
    /\ Visible(3)
    /\ ~Visible(4)

\* C19: with no active category and key events disabled, the filtered output and the list of
\* key events are both empty, whatever the topic, source, key-only and search criteria.
C19_NoCategoryNoKeyIsEmpty ==
    (ActiveCategories = {} /\ "key" \notin selectedCats)
        => (filteredData = << >> /\ keyEvents = << >>)

\* C19 witness: every legend row was switched off on a loaded page whose other criteria let
\* every event through.
C19_Witness ==
    /\ rawData = RowsFilter
    /\ selectedCats = {}
    /\ selectedTopics = TopicItems(rawData)
    /\ selectedSources = SourceOptions(rawData)
    /\ ~onlyKeyEvents
    /\ searchValue = << >>
    /\ filteredData = << >>

KeyOffHidesKeyEvents ==
    "key" \notin selectedCats => \A i \in Range(filteredData) : ~rawData[i].keyEvent

KeyToggleKeepsOthers ==
    (("key" \in selectedCats) # ("key" \in selectedCats'))
        => \A i \in Indices(rawData) :
               ~rawData[i].keyEvent => (Visible(i) <=> (i \in Range(filteredData')))

\* C20: key-event gating. While key events are disabled in the legend no key event is
\* visible, and switching the legend's key row never changes whether a non-key event is
\* visible.
C20_KeyEventGating == []KeyOffHidesKeyEvents /\ [][KeyToggleKeepsOthers]_vars

\* C20 witness: the key row was switched off with every category active; a non-key event is
\* shown and a key event that passes everything else is hidden.
C20_Witness ==
    /\ rawData = RowsFilter
    /\ last.op = "legend"
    /\ selectedCats = categoryKeys
    /\ Visible(1)
    /\ ~Visible(3)
    /\ CategoryPasses(3) /\ TopicPasses(3) /\ SourcePasses(3) /\ KeyOnlyPasses(3) /\ SearchPasses(3)

SourceRule(i) ==
    IF SourceOptions(rawData) = {} THEN TRUE
    ELSE IF selectedSources = SourceOptions(rawData) THEN TRUE
    ELSE rawData[i].displaySource # "" /\ rawData[i].displaySource \in selectedSources

\* C21: source predicate of the filter. With zero source options every event passes it; with
\* every option selected every event passes it, events with a blank source included; otherwise
\* an event passes iff its source is not blank and is selected. An event is visible iff it
\* passes this and the other predicates.
C21_SourcePredicate ==
    \A i \in Indices(rawData) :
        Visible(i) <=> /\ SourceRule(i)
                       /\ CategoryPasses(i) /\ KeyGatePasses(i) /\ TopicPasses(i)
                       /\ KeyOnlyPasses(i) /\ SearchPasses(i)

\* C21 witness: one of two sources selected; its event is shown, the event of the other source
\* is hidden, and the event with a blank source is hidden by the source predicate alone.
C21_Witness ==
    /\ rawData = RowsSources
    /\ selectedSources = { "s1" }
    /\ Visible(1)
    /\ ~Visible(3)
    /\ ~Visible(2)
    /\ CategoryPasses(2) /\ KeyGatePasses(2) /\ TopicPasses(2) /\ KeyOnlyPasses(2) /\ SearchPasses(2)

(***************************************************************************)
(* Pinch                                                                   *)
(***************************************************************************)
\* the step is a pinch move that proposed a window
PinchMoved == last'.op = "pinch" /\ Dist(touch'.active) > 0

\* the window that move proposed, from the scale and the closure it started with
PinchProposed == PinchProposal(x, touch, touch'.active)

BaseSpan == Minus(touch.baseDomain.d1, touch.baseDomain.d0)

\* the proposed span is BaseSpan * pinchStartDist / dist, each end cut to a whole tick
PinchSpanScaled ==
    LET span == Minus(PinchProposed[2], PinchProposed[1])
        dist == Dist(touch'.active)
    IN  IF IsNaN(BaseSpan) THEN IsNaN(span)
        ELSE /\ ~IsNaN(span)
             /\ Abs(span * dist - BaseSpan * touch.pinchStartDist) < 2 * dist
             /\ (dist > touch.pinchStartDist) => span <= BaseSpan
             /\ (dist < touch.pinchStartDist) => span > BaseSpan - 2

\* C22: during a two-pointer pinch the proposed span is the span the domain had at pinch start
\* times startDistance / currentDistance: spreading the fingers narrows the window, closing
\* them widens it.
C22_PinchSpanFactor == [][ PinchMoved => PinchSpanScaled ]_vars

\* the time that was under the pinch midpoint when the gesture started: pinchStartMidX on the
\* scale with the domain of that moment (baseDomain)
PinchStartAnchor ==
    InvertHalf(SetDomain(x, touch.baseDomain.d0, touch.baseDomain.d1),
               touch.pinchStartMidX2 - 2 * BBoxLeft)

\* C23: throughout one pinch gesture the zoom anchor is the time that was under the pinch
\* midpoint when the gesture started: every move of the gesture uses that anchor, whatever
\* the fingers' current midpoint and the current domain are.
C23_PinchAnchorFixed ==
    [][ PinchMoved => StrictEq(PinchAnchor(x, touch'.active), PinchStartAnchor) ]_vars

(***************************************************************************)
(* Wheel                                                                   *)
(***************************************************************************)
\* the step is a wheel tick with positive (negative) deltaY
WheelTicked(positive) == last'.op = (IF positive THEN "wheelOut" ELSE "wheelIn")

\* the window the tick proposed is the current window scaled by tenths / 10 about the time
\* under the pointer, each end cut to a whole tick
WheelScaled(tenths) ==
    LET p    == WheelProposal(x, last'.arg, tenths)
        a    == Invert(x, last'.arg)
        span == Minus(p[2], p[1])
        cur  == Minus(x.d1, x.d0)
    IN  IF IsNaN(cur) THEN IsNaN(span)
        ELSE /\ ~IsNaN(span)
             /\ Abs(10 * span - tenths * cur) < 20
             /\ Abs(10 * (a - p[1]) - tenths * (a - x.d0)) < 10
             /\ Abs(10 * (p[2] - a) - tenths * (x.d1 - a)) < 10

ClickLegendKeys == { "key" }

NextClicks ==
    \/ \E rows \in DataSets : Load(rows)
    \/ \E i \in 1 .. Len(rawData) : DotClick(i)
    \/ \E k \in 1 .. Len(placedLabels) : LabelClick(k)
    \/ \E k \in ClickLegendKeys : LegendClick(k)
    \/ \E w \in Widths : Resize(w)
    \/ ZoomInBtn
    \/ ZoomOutBtn

SpecClicks == Init /\ [][NextClicks]_vars

\* C25: an event's viewed flag only goes from false to true, under any sequence of marker
\* clicks, label clicks, filter changes, zooms and redraws: it is set on the event that was
\* the active selection at the moment a different event becomes the selection, on no other
\* event and at no other moment.
C25_ViewedMonotonic ==
    [][ /\ viewed \subseteq viewed'
        /\ \A i \in viewed' \ viewed : i = lastClicked /\ lastClicked' # i
        /\ (lastClicked # NoRow /\ lastClicked' # lastClicked) => lastClicked \in viewed' ]_vars

\* C25 witness: a label click moved the selection from one event to another; the first is
\* flagged, the second is not.
C25_Witness ==
    /\ last.op = "labelClick"
    /\ lastClicked # NoRow
    /\ lastClicked \notin viewed
    /\ viewed # {}

\* C27: an empty visible set is a valid state: when filtering yields no record the marker
\* layer and the annotation layer are cleared, nothing is relaxed, no label is placed, and the
\* handler completes.
C27_EmptySetClearsLayers ==
    filteredData = << >> =>
        /\ DOMAIN dots = {}
        /\ DOMAIN cache = {}
        /\ placedLabels = << >>
        /\ keyEvents = << >>

\* C27 witness: "Deselect all" on the topic list of a loaded file emptied a chart that showed
\* dots.
C27_Witness ==
    /\ rawData = RowsFilter
    /\ last.op = "topicsOff"
    /\ categoryKeys \subseteq selectedCats
    /\ filteredData = << >>
    /\ DOMAIN dots = {}

\* the text is a substring of the title or of the notes, compared without regard to case
FoundIn(i, text) ==
    \/ includes(toLowerCase(rawData[i].event), toLowerCase(text))
    \/ includes(toLowerCase(rawData[i].notes), toLowerCase(text))

Blank(text) == \A k \in 1 .. Len(text) : text[k] = " "

\* the search predicate on the text as typed
SearchRuleAsTyped(i) == Blank(searchValue) \/ FoundIn(i, searchValue)

\* the search predicate on the text without its leading and trailing blanks
SearchRuleTrimmed(i) == Blank(searchValue) \/ FoundIn(i, trim(searchValue))

\* C28 as stated: with an empty or whitespace-only search text every event passes the search
\* predicate; otherwise an event passes iff the search text, compared case-insensitively, is a
\* substring of its title or of its notes.
C28_SearchPredicateAsTyped ==
    \A i \in Indices(rawData) :
        Visible(i) <=> /\ SearchRuleAsTyped(i)
                       /\ CategoryPasses(i) /\ KeyGatePasses(i) /\ TopicPasses(i)
                       /\ SourceRule(i) /\ KeyOnlyPasses(i)

\* C28, amended: the text that is compared is the search text without its leading and
\* trailing whitespace.
C28_SearchPredicate ==
    \A i \in Indices(rawData) :
        Visible(i) <=> /\ SearchRuleTrimmed(i)
                       /\ CategoryPasses(i) /\ KeyGatePasses(i) /\ TopicPasses(i)
                       /\ SourceRule(i) /\ KeyOnlyPasses(i)

\* C28 witness: a search typed with a leading blank and in upper case shows the event whose
\* title has the letter and the event whose notes have it, and hides an event that has it
\* in neither and passes everything else.
C28_Witness ==
    /\ rawData = RowsFilter
    /\ searchValue = << " ", "B" >>
    /\ Visible(2)
    /\ Visible(3)
    /\ ~Visible(1)
    /\ CategoryPasses(1) /\ KeyGatePasses(1) /\ TopicPasses(1) /\ SourceRule(1) /\ KeyOnlyPasses(1)

KeyOnlyRule(i) == ~onlyKeyEvents \/ rawData[i].keyEvent

\* C29: key-events-only predicate of the filter. Unset, it excludes nothing; set, it excludes
\* exactly the non-key events, so that the visible set holds key events only.
C29_KeyOnlyPredicate ==
    /\ \A i \in Indices(rawData) :
           Visible(i) <=> /\ KeyOnlyRule(i)
                          /\ CategoryPasses(i) /\ KeyGatePasses(i) /\ TopicPasses(i)
                          /\ SourceRule(i) /\ SearchRuleTrimmed(i)
    /\ onlyKeyEvents => \A i \in Range(filteredData) : rawData[i].keyEvent

\* C29 witness: the box is ticked; a key event is shown and a non-key event that passes
\* everything else is hidden.
C29_Witness ==
    /\ rawData = RowsFilter
    /\ onlyKeyEvents
    /\ Visible(2)
    /\ ~Visible(1)
    /\ CategoryPasses(1) /\ KeyGatePasses(1) /\ TopicPasses(1) /\ SourceRule(1) /\ SearchRuleTrimmed(1)

(***************************************************************************)
(* Label anchors                                                           *)
(***************************************************************************)
\* x lies strictly inside the left, the middle, the right third of the chart width
InLeftThird(xPos) == PxLT(xPos, [ n |-> width, d |-> 3 ])

InRightThird(xPos) == PxGT(xPos, [ n |-> 2 * width, d |-> 3 ])

InMiddleThird(xPos) ==
    PxGT(xPos, [ n |-> width, d |-> 3 ]) /\ PxLT(xPos, [ n |-> 2 * width, d |-> 3 ])

\* C30 as stated: a label's anchor depends on its x position and the chart width only: in the
\* left third of the chart it is "start", in the right third "end", in the middle third
\* "middle".
C30_AnchorByThirds ==
    \A k \in 1 .. Len(placedLabels) :
        /\ InLeftThird(placedLabels[k].xPos) => placedLabels[k].anchor = "start"
        /\ InRightThird(placedLabels[k].xPos) => placedLabels[k].anchor = "end"
        /\ InMiddleThird(placedLabels[k].xPos) => placedLabels[k].anchor = "middle"

\* the anchor for x against 33 % and 66 % of the chart width
AnchorRule(xPos) ==
    IF 100 * xPos.n < 33 * width * xPos.d THEN "start"
    ELSE IF 100 * xPos.n > 66 * width * xPos.d THEN "end"
    ELSE "middle"

\* C30, amended: a label's anchor depends on its x position and the chart width only, never
\* on its row: x below 33 % of the width gives "start", x above 66 % of the width gives
\* "end", anything between gives "middle".
C30_AnchorByPosition ==
    \A k \in 1 .. Len(placedLabels) :
        placedLabels[k].anchor = AnchorRule(placedLabels[k].xPos)

\* C30 witness: a label stands between 66 % of the width and two thirds of it, so still in the
\* middle third, and is anchored at its end.
C30_Witness ==
    \E k \in 1 .. Len(placedLabels) :
        /\ InMiddleThird(placedLabels[k].xPos)
        /\ placedLabels[k].anchor = "end"

(***************************************************************************)
(* The relaxation and its cache across domain changes                      *)
(***************************************************************************)
SpanOf(sc) == Minus(sc.d1, sc.d0)

\* the step ran the relaxation
Relaxes == \E k \in 1 .. Len(stages') : stages'[k] = "relax"

\* the step left a span that differs from the span it found by more than the threshold
SpanMoved ==
    /\ x.ok /\ x'.ok
    /\ ~IsNaN(SpanOf(x)) /\ ~IsNaN(SpanOf(x'))
    /\ Abs(SpanOf(x') - SpanOf(x)) > RepackThreshold

\* the step drew a visible set that is not the one it found
VisibleSetChanged == filteredData' # filteredData /\ filteredData' # << >>

\* the step's drawChart went on to the initial fit, from the span of the visible set it drew
FitRan == Len(stages') > Len(RedrawStages(TRUE))

FitSpanMoved ==
    Abs((FULL_EXTENT'.max - FULL_EXTENT'.min)
        - (MaxDate(rawData', Range(filteredData')) - MinDate(rawData', Range(filteredData'))))
      > RepackThreshold

\* C31: every step that changes the visible set, and every step (wheel, zoom button, pinch,
\* pan) or initial fit that changes the span by more than the threshold, runs the relaxation;
\* the cached offsets are reused only when the span stays within the threshold.
C31_RepackOnSpanChange ==
    [][ /\ (VisibleSetChanged \/ SpanMoved) => Relaxes
        /\ FitRan => ~FitSpanMoved ]_vars

\* the step is a two-finger move that reached setDomainAndRedraw
PinchRedrawn == last'.op = "pinch" /\ stages' # << >>

\* C32: a pinch move runs the relaxation only if it leaves a span that differs by more than
\* the threshold from the span the domain had just before the move; a move that leaves the
\* span within the threshold reuses the cached offsets.
C32_PinchRepackOnlyOnSpanChange ==
    [][ PinchRedrawn /\ Relaxes => SpanMoved ]_vars

\* the step is a zoom-out request made while the domain is the full extent
ZoomOutAtFullExtent ==
    /\ last'.op \in { "zoomOut", "wheelOut" }
    /\ x.ok /\ FULL_EXTENT.ok
    /\ StrictEq(x.d0, FULL_EXTENT.min) /\ StrictEq(x.d1, FULL_EXTENT.max)

\* C33: a zoom-out request (button or wheel) made while the domain equals the full extent
\* returns early: no relaxation and no redraw, and every cached xOffset and ySim is what it
\* was before the request.
C33_ZoomOutAtFullExtentIsNoOp ==
    [][ ZoomOutAtFullExtent => stages' = << >> /\ cache' = cache ]_vars

(***************************************************************************)
(* The gesture session of the touch handlers                               *)
(***************************************************************************)
\* C34: whenever no pointer is active, the gesture session is reset: the pinch baseline
\* distance, the pinch start midpoint, the last pan position and the base domain are null.
C34_NoPointerNoSession ==
    Down(touch) = {} =>
        /\ touch.pinchStartDist = NoPx
        /\ touch.pinchStartMidX2 = NoPx
        /\ touch.panLastX = NoPx
        /\ ~touch.baseDomain.ok

\* C34 witness: the last pointer was released after gestures that moved the domain away from
\* the full extent.
C34_Witness ==
    /\ isTouch /\ last.op = "pointerup"
    /\ Down(touch) = {}
    /\ ~touch.baseDomain.ok
    /\ x.ok /\ FULL_EXTENT.ok
    /\ x.d0 # FULL_EXTENT.min

\* the step is a one-finger pan
PanStep == last'.op = "touchPan"

\* C35: every one-finger pan step shifts by the displacement of the moving pointer since that
\* pointer's previous position, also on the first move of the finger that remains after a
\* pinch.
C35_PanDeltaFromSamePointer ==
    [][ PanStep => \A id \in Down(touch) : last'.arg = touch'.active[id] - touch.active[id] ]_vars

(***************************************************************************)
(* The order of a redraw                                                   *)
(***************************************************************************)
\* what may come just before a stage in the turn of one handler
StageAfter(prev, stage) ==
    \/ stage = "domain" /\ prev = "annotations"
    \/ stage = "axis" /\ prev = "domain"
    \/ stage = "relax" /\ prev = "axis"
    \/ stage = "markers" /\ prev \in { "axis", "relax" }
    \/ stage = "annotations" /\ prev = "markers"

StagesOrdered ==
    stages # << >> =>
        /\ stages[1] = "domain"
        /\ stages[Len(stages)] = "annotations"
        /\ \A k \in 2 .. Len(stages) : StageAfter(stages[k - 1], stages[k])

\* the handler that ran last left a domain that is not the one it found
DomainChanged == x.ok /\ (x.d0 # last.d0 \/ x.d1 # last.d1)

\* every connector starts at the y its dot has on the chart
ConnectorsAtDots ==
    \A k \in 1 .. Len(placedLabels) :
        LET match == Match(rawData, filteredData, placedLabels[k].ev)
        IN  match \in DOMAIN dots /\ connectors[k] = dots[match].cy

\* C37: every domain change is applied in one turn in the order domain, axis, markers (after
\* the relaxation when a repack is requested), annotations; the annotations are never built
\* before the markers' y positions of the turn are final.
C37_RedrawOrder ==
    /\ StagesOrdered
    /\ DomainChanged => stages # << >>
    /\ ConnectorsAtDots

\* C37 witness: a zoom-in that changed the domain and repacked, leaving a label whose
\* connector starts at a dot the relaxation moved off the centre line.
C37_Witness ==
    /\ last.op = "zoomIn" /\ DomainChanged
    /\ \E k \in 1 .. Len(stages) : stages[k] = "relax"
    /\ \E k \in 1 .. Len(placedLabels) : connectors[k] # DOT_CENTER_Y

(***************************************************************************)
(* The domain a redraw leaves.  The search box and the key-events-only     *)
(* checkbox are in the page before the data arrive; what they hold then is *)
(* read by the first updateChart().                                        *)
(***************************************************************************)
RefitTexts == { << >>, << "z" >> }

NextRefit ==
    \/ \E rows \in DataSets : Load(rows)
    \/ \E text \in RefitTexts : SearchInput(text)
    \/ KeyEventFilterChange
    \/ \E w \in Widths : Resize(w)
    \/ ZoomInBtn
    \/ ZoomOutBtn
    \/ \E px \in WheelPixels, up \in BOOLEAN : Wheel(px, up)
    \/ \E px \in DragPixels : DragStart(px)
    \/ \E px \in DragPixels : DragMove(px)
    \/ DragEnd

SpecRefit == Init /\ [][NextRefit]_vars

\* the step is a filter change or a resize that leaves rows on the chart
FilterOps ==
    { "legend", "topic", "topicsOn", "topicsOff", "source", "sourcesOn", "sourcesOff",
      "keyOnly", "search", "resize" }

RedrawnWithRows == last'.op \in FilterOps /\ filteredData' # << >>

\* after the step the domain is [earliest, latest] of the visible set
DomainIsVisibleExtent ==
    /\ x'.ok
    /\ x'.d0 = MinDate(rawData', Range(filteredData'))
    /\ x'.d1 = MaxDate(rawData', Range(filteredData'))

\* after the step the domain is the extent of the whole data set
DomainIsFullExtent ==
    x'.ok /\ x'.d0 = FULL_EXTENT'.min /\ x'.d1 = FULL_EXTENT'.max

\* C38 as stated: every filter change or resize after the load that leaves rows on the chart
\* sets the domain to [earliest, latest] of the visible set, whatever the zoom was; only the
\* draw of the load sets it to the full extent.
C38_RedrawResetsAfterLoad ==
    [][ /\ (RedrawnWithRows /\ FULL_EXTENT.ok) => DomainIsVisibleExtent
        /\ (last'.op = "load" /\ filteredData' # << >>) => DomainIsFullExtent ]_vars

\* C38, amended: the draw that fits to the full extent is the first draw of a visible set that
\* is not empty (the draw of the load, unless what the search box and the checkbox held then
\* left nothing visible); every later filter change or resize that leaves rows on the chart
\* sets the domain to [earliest, latest] of the visible set, whatever the zoom was.
C38_RedrawResetsDomain ==
    [][ /\ (RedrawnWithRows /\ didInitialFit) => DomainIsVisibleExtent
        /\ ((RedrawnWithRows \/ last'.op = "load") /\ filteredData' # << >> /\ ~didInitialFit)
               => DomainIsFullExtent ]_vars

\* C38 witness: the checkbox was ticked on a chart zoomed in from the full extent, and the
\* domain is now the extent of the key events, which is not the full extent.
C38_Witness ==
    /\ last.op = "keyOnly" /\ didInitialFit /\ filteredData # << >>
    /\ last.d0 > FULL_EXTENT.min /\ last.d1 < FULL_EXTENT.max
    /\ x.d0 = MinDate(rawData, Range(filteredData))
    /\ x.d1 = MaxDate(rawData, Range(filteredData))
    /\ x.d0 # FULL_EXTENT.min
    /\ x.d0 # last.d0

\* the step starts and ends with no row visible, on a chart that has a scale
StaysEmpty == x.ok /\ filteredData = << >> /\ filteredData' = << >>

\* C39: while the visible set is empty no input changes the domain: zoomBy returns at once,
\* and wheel ticks, drags and touch gestures leave the domain and the axis as they were when
\* the set became empty.
C39_EmptySetFreezesDomain ==
    [][ StaysEmpty => x' = x /\ stages' = << >> ]_vars

(***************************************************************************)
(* Key events in the legend without a category                             *)
(***************************************************************************)
\* C40: whenever none of biological, chemical and multi is active the visible set is empty,
\* also with key events enabled in the legend: key events alone make no event visible.
C40_NoCategoryIsEmpty ==
    (categoryKeys \cap selectedCats = {}) => filteredData = << >>

\* C40 witness: the legend was clicked and leaves key events as its only active row, on a
\* file that has key events and no other filter that hides them.
C40_Witness ==
    /\ last.op = "legend"
    /\ selectedCats = { "key" }
    /\ \E i \in Indices(rawData) :
          /\ rawData[i].keyEvent
          /\ TopicPasses(i) /\ SourcePasses(i) /\ SearchPasses(i)
    /\ filteredData = << >>

(***************************************************************************)
(* Label stacking on its own: a page that loads one of the LabelDataSets   *)
(* (three key events between two plain rows) and is then redrawn.          *)
(***************************************************************************)
LabelDays == 7

LabelLengths == { 6, 52 }

Text(n) == [ k \in 1 .. n |-> "a" ]

LabelRows(ds, ls) ==
    << Row(0,         << "biological" >>, << >>, "", FALSE, Text(1),     << >>),
       Row(ds[1],     << "chemical" >>,   << >>, "", TRUE,  Text(ls[1]), << >>),
       Row(ds[2],     << "chemical" >>,   << >>, "", TRUE,  Text(ls[2]), << >>),
       Row(ds[3],     << "chemical" >>,   << >>, "", TRUE,  Text(ls[3]), << >>),
       Row(LabelDays, << "biological" >>, << >>, "", FALSE, Text(1),     << >>) >>

LabelDataSets ==
    { LabelRows(ds, ls) : ds \in [ 1 .. 3 -> 0 .. LabelDays ], ls \in [ 1 .. 3 -> LabelLengths ] }

NextLabels ==
    \/ \E rows \in LabelDataSets : Load(rows)
    \/ \E w \in Widths : Resize(w)

SpecLabels == Init /\ [][NextLabels]_vars

\* two placements overlap: neither padded extent ends before the other begins
PaddedOverlap(a, b) == ~(PxLT(a.x2, b.x1) \/ PxLT(b.x2, a.x1))

\* C14: after label stacking no two placements that share a row have overlapping padded
\* horizontal extents (estimated width, characters x 7 px centred on x, widened by the
\* 4 px padding on both sides).
C14_LabelsOnARowDisjoint ==
    \A k, l \in 1 .. Len(placedLabels) :
        (k < l /\ placedLabels[k].level = placedLabels[l].level)
            => ~PaddedOverlap(placedLabels[k], placedLabels[l])

\* key events are placed in ascending time order, ties in the order of the rows
PlacedInTimeOrder ==
    \A k, l \in 1 .. Len(placedLabels) :
        k < l => \/ rawData[placedLabels[k].ev].date < rawData[placedLabels[l].ev].date
                 \/ /\ rawData[placedLabels[k].ev].date = rawData[placedLabels[l].ev].date
                    /\ placedLabels[k].ev < placedLabels[l].ev

\* C15: label stacking goes through the key events in ascending time order, ties in
\* ingestion order, and what it places is a function of the key-event list, the scale and
\* the chart width: every redraw with the same inputs gives the same rows and anchors.
C15_LabelsOrderedAndDetermined ==
    /\ PlacedInTimeOrder
    /\ (x.ok /\ filteredData # << >>) =>
           placedLabels = drawAnnotations(KeyRows(rawData, filteredData), rawData, x, width)

\* C15 witness: a redraw that changed nothing, for key events loaded out of time order with
\* two of them on the same date, all three placed.
C15_Witness ==
    /\ last.op = "resize"
    /\ Len(placedLabels) = 3
    /\ Len(rawData) = 5
    /\ rawData[2].date > rawData[3].date
    /\ rawData[3].date = rawData[4].date
    /\ placedLabels[1].ev = 3 /\ placedLabels[2].ev = 4 /\ placedLabels[3].ev = 2

\* row r is free for the k-th placement: the placements made before it on row r all have
\* extents disjoint from its own
RowFree(k, r) ==
    \A j \in 1 .. (k - 1) :
        placedLabels[j].level = r => ~PaddedOverlap(placedLabels[j], placedLabels[k])

\* C36: label stacking is first-fit: each key event, in processing order, gets the lowest row
\* r >= 0 on which its extent is disjoint from every extent reserved there; it is never put on
\* a higher row while a lower one is free, and the row index has no cap.
C36_LabelsFirstFit ==
    \A k \in 1 .. Len(placedLabels) :
        /\ RowFree(k, placedLabels[k].level)
        /\ \A r \in 0 .. (placedLabels[k].level - 1) : ~RowFree(k, r)

====
